---- MODULE Spec2Model ----
(***************************************************************************)
(* A state-machine model of the data plane of the Lighter broadcaster      *)
(* (Backend/): the TTL cache, the WebSocket trade merge of on_ws_message,  *)
(* the per-account REST connection tracker with its two-phase retry, and   *)
(* the broadcast hub.                                                      *)
(*                                                                         *)
(* The program runs on one asyncio event loop: code between two awaits     *)
(* that really suspend is one atomic step.  The cache lock is only ever    *)
(* held over code without awaits, so it is never contended and every       *)
(* cache method is one atomic step.                                        *)
(*                                                                         *)
(* Each component has its own specification over the shared variables      *)
(* (SpecCache, SpecTrades, SpecRest, SpecHub); the variables of the other  *)
(* components stay at their initial values.                                *)
(***************************************************************************)
EXTENDS Integers, Sequences, FiniteSets, TLC

VARIABLES
    now,            \* time.time(), in whole seconds
    cache,          \* DataCache._cache: key -> CacheEntry
    cacheRet,       \* what the last cache operation was and what it returned
    lastSet,        \* history: per key, the arguments of the last set() since clear()
    wsFrame,        \* history: the frame handed to the last on_ws_message call
    wsOutcome,      \* history: how that call ended
    wsCalls,        \* history: how many calls of on_ws_message there were
    supabase_initialized,  \* supabase_client.is_initialized, fixed at startup
    collector,      \* error_collector: the ring _errors and _error_counts, with the
                    \* history of the adds and of the last get_recent_errors
    lighter,               \* the LighterClient: running, _poll_task, the polling task
                           \* api.py made, the per-account clients and close()
    rest,           \* LighterClient._rest_connections: account -> AccountRestConnection
    pollPc,         \* per account: where its fetch_account_data call is
    orderTasks,     \* per account: the fetch_active_orders tasks of a running gather
    cached_orders,  \* LighterClient._cached_orders
    restErrors,     \* how many errors with source "rest" error_collector was given
    calls,          \* history: per account, the upstream REST calls issued
    hist,           \* history: per account, the failures recorded since the last
                    \* success or force_reconnect
    lastReq,        \* history: the last decision (skip or call) of a poll tick and
                    \* what it returned, and the last decision of an order fetch
    resetHist,      \* history: per account, `just` while no request ended since the
                    \* last force_reconnect, `fresh` while no poll tick followed it,
                    \* `down` when it found the connector disconnected
    active_connections,  \* ConnectionManager.active_connections
    lock,           \* ConnectionManager._lock: 0 when free, else the broadcast holding it
    subPc,          \* per downstream websocket: where its websocket_endpoint is
    inbox,          \* per downstream websocket: the frames written to it, each with
                    \* the broadcast that wrote it (0: the endpoint itself)
    bcast,          \* per call of manager.broadcast: where it is, its locals, and the
                    \* history of the call (the connections at its start and return,
                    \* the writes that failed)
    wsConn,         \* LighterWebSocketClient._connections: account -> the fields of
                    \* its AccountWebSocketConnection
    wsTasks,        \* per account: the connect tasks made so far, in order
    wsOps,          \* per caller: where its stop or force_reconnect call is
    wsHist          \* history: per account, the reconnect_count the heartbeat found
                    \* when it last closed the socket, until the next connection;
                    \* how many text frames were dropped before the callback,
                    \* how many times the callback raised, and how many connection
                    \* cycles in a row ended with an exception since the last one
                    \* that sent its subscriptions

cacheVars == <<cache, cacheRet, lastSet>>
connVars == <<wsConn, wsTasks, wsOps, wsHist>>
wsVars == <<wsFrame, wsOutcome, wsCalls, connVars>>
restVars == <<rest, pollPc, orderTasks, cached_orders, restErrors, calls, hist,
              lastReq, resetHist>>
hubVars == <<active_connections, lock, subPc, inbox, bcast>>

(***************************************************************************)
(* Bounds of the model.                                                    *)
(***************************************************************************)
\* time.time() at startup; any value larger than every interval of the program
StartTime == 100000
\* how long after startup the clock of SpecCache runs
CacheHorizon == 7
\* how many 1800 s steps the clock of SpecTrades takes
TradesTicks == 3
\* how many frames on_ws_message handles in SpecTrades
MaxFrames == 3
\* the step of the clock of SpecRest, in seconds, and how many steps it takes
RestStep == 60
RestTicks == 9
\* how many upstream REST calls an account issues in SpecRest
MaxRequests == 8
\* the same two for SpecRestOrders, where requests run in parallel
OrdersTicks == 3
OrdersMaxRequests == 7
\* how many of them the upstream answers with a success
OrdersMaxSuccesses == 1
\* how long the stored active-orders list of an account may get in SpecRestOrders
MaxOrders == 2
\* how many calls of manager.broadcast SpecHub runs, one after another or at once
MaxBroadcasts == 2
\* SpecAccounts: the upstream REST calls of the account that is followed into
\* its backoff; and those of the other account, which is also how many calls
\* of an account may succeed and how often its websocket may fail
AccountsMaxRequests == 3
AccountsFewRequests == 1
\* SpecWs: the steps of PING_INTERVAL, and the connects and reads that raise
WsTicks == 6
WsMaxFailures == 1
\* SpecWsTasks: the connect tasks made for the account
MaxTasks == 3
\* SpecRetry: the steps of PING_INTERVAL, enough for five waits of phase 1 and
\* one of phase 2, and the connection cycles that end with an exception
RetryTicks == 22
RetryMaxFailures == 6
\* SpecBadFrames: the text frames dropped before the callback
MaxMalformed == 2

(***************************************************************************)
(* Python values.  None is modelled as a record without the fields of a    *)
(* value, so a test for None never compares values of different kinds.     *)
(***************************************************************************)
None == [none |-> TRUE]

\* a value that is not None
Some(v) == [none |-> FALSE, val |-> v]

\* an optional int argument: -1 stands for None
NoneInt == 0 - 1

(***************************************************************************)
(* Backend/cache.py                                                        *)
(***************************************************************************)
\* DataCache.__init__(default_ttl=5); the module-level instance is DataCache()
default_ttl == 5

CacheEntry(data, timestamp, ttl) ==
    [data |-> data, timestamp |-> timestamp, ttl |-> ttl]

\* the test of get, get_all and get_stats: time.time() - entry.timestamp > entry.ttl
IsExpired(entry, t) == t - entry.timestamp > entry.ttl

\* dict without a key
DictDel(d, keys) == [k \in (DOMAIN d) \ keys |-> d[k]]

\* dict with d[key] = value
DictPut(d, key, value) ==
    [k \in (DOMAIN d) \cup {key} |-> IF k = key THEN value ELSE d[k]]

\* `ttl or self.default_ttl`: None and 0 are both falsy
EffectiveTtl(ttl) == IF ttl = NoneInt \/ ttl = 0 THEN default_ttl ELSE ttl

\* DataCache.get: the cache afterwards and the returned value
get(c, key, t) ==
    IF key \notin DOMAIN c
    THEN [cache |-> c, ret |-> None]
    ELSE IF IsExpired(c[key], t)
         THEN [cache |-> DictDel(c, {key}), ret |-> None]
         ELSE [cache |-> c, ret |-> Some(c[key].data)]

\* DataCache.set: the cache afterwards
set(c, key, data, ttl, t) ==
    DictPut(c, key, CacheEntry(data, t, EffectiveTtl(ttl)))

\* a get_all that forgets its sweep: `for key in expired_keys: del ...` left out
get_all_NoSweep(c, t) ==
    LET expired_keys == {k \in DOMAIN c : IsExpired(c[k], t)}
        result == [k \in (DOMAIN c) \ expired_keys |->
                     [data |-> c[k].data, age |-> t - c[k].timestamp, ttl |-> c[k].ttl]]
    IN  [cache |-> c, ret |-> result]

\* DataCache.get_all: the cache afterwards and the returned dict
get_all(c, t) ==
    LET expired_keys == {k \in DOMAIN c : IsExpired(c[k], t)}
        result == [k \in (DOMAIN c) \ expired_keys |->
                     [data |-> c[k].data, age |-> t - c[k].timestamp, ttl |-> c[k].ttl]]
    IN  [cache |-> DictDel(c, expired_keys), ret |-> result]

\* DataCache.clear
clear(c) == DictDel(c, DOMAIN c)

\* DataCache.get_stats
get_stats(c, t) ==
    [total_entries |-> Cardinality(DOMAIN c),
     valid_entries |-> Cardinality({k \in DOMAIN c : ~IsExpired(c[k], t)}),
     expired_entries |-> Cardinality({k \in DOMAIN c : IsExpired(c[k], t)})]

EmptyDict == [k \in {} |-> None]

(***************************************************************************)
(* Backend/config.py, Backend/api.py: the account_all_trades branch of     *)
(* on_ws_message.                                                          *)
(***************************************************************************)
\* MAX_TRADES_PER_MARKET of on_ws_message.  The program sets 500 (api.py:113)
\* and uses it only in `len(...) > MAX` and `[-MAX:]`; the model scales it down
\* so that buckets reach it, and every claim is stated relative to it.
MAX_TRADES_PER_MARKET == 4

\* the account_index values of settings.accounts, and an id that is not configured
ConfiguredAccounts == {7, 42, 43}
AccountIds == {7, 9}
Markets == {1, 3}

\* A trade: a JSON object.  A field that is missing, null, 0 or "" is falsy in
\* Python and is modelled as 0; p is the rest of the object.
Trade(id, trade_id, timestamp, p) ==
    [isObject |-> TRUE, id |-> id, trade_id |-> trade_id, timestamp |-> timestamp,
     p |-> p]

\* An item of a trade list that is not a JSON object (a number, a string,
\* null): it has no .get, so `trade.get("id")` raises AttributeError.  Such an
\* item has no fields; the zeros keep the record shape and stand for nothing.
NotATrade ==
    [isObject |-> FALSE, id |-> 0, trade_id |-> 0, timestamp |-> 0, p |-> 0]

\* trade.get("id") or trade.get("trade_id") or trade.get("timestamp"):
\* the first truthy one, else the (falsy) last
TradeKey(t) ==
    IF t.id # 0 THEN t.id
    ELSE IF t.trade_id # 0 THEN t.trade_id
    ELSE t.timestamp

\* lst[-n:] for n > 0
LastN(lst, n) ==
    IF Len(lst) <= n THEN lst ELSE SubSeq(lst, Len(lst) - n + 1, Len(lst))

\* lst[:n], what a cut at the wrong end keeps
FirstN(lst, n) ==
    IF Len(lst) <= n THEN lst ELSE SubSeq(lst, 1, n)

\* the existing_ids loop: the truthy keys of the bucket
ExistingIds(bucket) ==
    {TradeKey(bucket[i]) : i \in {j \in 1..Len(bucket) : TradeKey(bucket[j]) # 0}}

\* the `for trade in market_trades` loop: append each trade whose key is truthy
\* and not yet in existing_ids, adding the key as it goes
RECURSIVE AppendNew(_, _, _, _)
AppendNew(bucket, existing_ids, market_trades, i) ==
    IF i > Len(market_trades) THEN bucket
    ELSE LET trade == market_trades[i]
             trade_key == TradeKey(trade)
         IN  IF trade_key # 0 /\ trade_key \notin existing_ids
             THEN AppendNew(Append(bucket, trade), existing_ids \cup {trade_key},
                            market_trades, i + 1)
             ELSE AppendNew(bucket, existing_ids, market_trades, i + 1)

\* a cut at the wrong end: the first MAX_TRADES_PER_MARKET are kept
CutBucket_KeepOldest(bucket) ==
    IF Len(bucket) > MAX_TRADES_PER_MARKET
    THEN FirstN(bucket, MAX_TRADES_PER_MARKET)
    ELSE bucket

\* the cut of a bucket that grew past MAX_TRADES_PER_MARKET
CutBucket(bucket) ==
    IF Len(bucket) > MAX_TRADES_PER_MARKET
    THEN LastN(bucket, MAX_TRADES_PER_MARKET)
    ELSE bucket

\* the body of `for market_id, market_trades in new_trades.items()` for a
\* market_trades that is a list: the bucket of market_id afterwards
MergeMarket(existing_trades, market_id, market_trades) ==
    IF market_id \in DOMAIN existing_trades
    THEN CutBucket(AppendNew(existing_trades[market_id],
                             ExistingIds(existing_trades[market_id]),
                             market_trades, 1))
    ELSE LastN(market_trades, MAX_TRADES_PER_MARKET)

\* a merge that starts from an empty dict instead of the stored one: the
\* buckets of the markets the frame does not name are lost
MergeTrades_OnlyNamed(existing_trades, new_trades) ==
    LET listed == {m \in DOMAIN new_trades : new_trades[m].isList}
    IN  [m \in listed |-> MergeMarket(existing_trades, m, new_trades[m].items)]

\* the whole loop: markets whose value is not a list are skipped, the markets
\* not named by the frame keep their bucket
MergeTrades(existing_trades, new_trades) ==
    LET listed == {m \in DOMAIN new_trades : new_trades[m].isList}
    IN  [m \in (DOMAIN existing_trades) \cup listed |->
            IF m \in listed
            THEN MergeMarket(existing_trades, m, new_trades[m].items)
            ELSE existing_trades[m]]

\* the index of the first item of a list that is not an object, 0 if all are
FirstNonObject(lst) ==
    LET bad == {i \in 1..Len(lst) : ~lst[i].isObject}
    IN  IF bad = {} THEN 0 ELSE CHOOSE i \in bad : \A j \in bad : i <= j

\* the body of the loop raises AttributeError for this market: the market is
\* cached and `t.get` meets a non-object in the bucket (existing_ids loop) or
\* `trade.get` meets one in market_trades.  A market that is not cached is
\* stored without a look at its items.
MarketRaises(existing_trades, market_id, market_trades) ==
    /\ market_id \in DOMAIN existing_trades
    /\ \/ FirstNonObject(existing_trades[market_id]) # 0
       \/ FirstNonObject(market_trades) # 0

\* the bucket of a market whose merge raised: the trades before the non-object
\* were appended to the list in place, the cut after the loop did not run
MergeMarketRaised(existing_trades, market_id, market_trades) ==
    IF FirstNonObject(existing_trades[market_id]) # 0
    THEN existing_trades[market_id]
    ELSE AppendNew(existing_trades[market_id],
                   ExistingIds(existing_trades[market_id]),
                   SubSeq(market_trades, 1, FirstNonObject(market_trades) - 1), 1)

\* the markets of the frame whose merge raises; the loop stops at the first
\* (new_trades.items() goes in the order of the frame, here by market id)
RaisingMarkets(existing_trades, new_trades) ==
    {m \in DOMAIN new_trades :
        /\ new_trades[m].isList
        /\ MarketRaises(existing_trades, m, new_trades[m].items)}

\* existing_trades when the loop raised at market `at`: the markets before it
\* are merged, the bucket of `at` holds what was appended, the rest is as it was
MergeTradesRaised(existing_trades, new_trades, at) ==
    LET listed == {m \in DOMAIN new_trades : new_trades[m].isList /\ m < at}
    IN  [m \in (DOMAIN existing_trades) \cup listed |->
            IF m \in listed
            THEN MergeMarket(existing_trades, m, new_trades[m].items)
            ELSE IF m = at
                 THEN MergeMarketRaised(existing_trades, m, new_trades[m].items)
                 ELSE existing_trades[m]]

\* _get_exchange_for_account_id: AccountConfig declares no field `exchange`,
\* so `account.exchange` raises AttributeError for a configured account
get_exchange_for_account_id(account_id) ==
    IF account_id \in ConfiguredAccounts THEN "AttributeError" ELSE "lighter"

TradesKey(account_id) == <<"ws_trades", account_id>>

\* The account_all_trades branch for a frame whose manager.broadcast returned
\* at once (no subscriber attached): the cache afterwards and how the call
\* ended.  int(parts) raising ValueError is caught; the AttributeError of
\* _get_exchange_for_account_id is not, and leaves on_ws_message after the
\* cache.get.  cache.get hands out the stored dict itself and the loop works
\* on its "trades" in place, so when the loop raises (an AttributeError too)
\* the entry keeps what the loop did so far, with the volumes, the timestamp
\* and the expiry it had: cache.set is not reached.
on_ws_message_trades(c, frame, t) ==
    IF ~frame.suffix.ok
    THEN [cache |-> c, outcome |-> "bad_channel"]
    ELSE LET account_id == frame.suffix.id
             got == get(c, TradesKey(account_id), t)
             existing_trades ==
                 IF got.ret = None THEN EmptyDict ELSE got.ret.val.trades
             new_trades == IF frame.trades.isDict THEN frame.trades.items ELSE EmptyDict
             raising == RaisingMarkets(existing_trades, new_trades)
             at == CHOOSE m \in raising : \A n \in raising : m <= n
         IN  IF get_exchange_for_account_id(account_id) = "AttributeError"
             THEN [cache |-> got.cache, outcome |-> "raised"]
             ELSE IF raising # {}
             THEN [cache |-> [got.cache EXCEPT ![TradesKey(account_id)].data.trades =
                                 MergeTradesRaised(existing_trades, new_trades, at)],
                   outcome |-> "aborted"]
             ELSE [cache |-> set(got.cache, TradesKey(account_id),
                                 [trades |-> MergeTrades(existing_trades, new_trades),
                                  volumes |-> frame.volumes,
                                  timestamp |-> t],
                                 3600, t),
                   outcome |-> "merged"]

(***************************************************************************)
(* Backend/lighter_client.py: AccountRestConnection.                       *)
(* _connection_start_time, _last_error and _request_timestamps feed the    *)
(* health report only and are left out.                                    *)
(***************************************************************************)
RETRY_PHASE_1_INTERVAL == 60
RETRY_PHASE_1_MAX_ATTEMPTS == 5
RETRY_PHASE_2_INTERVAL == 300
\* `if self._consecutive_failures >= 3` of record_failure
FAILURE_THRESHOLD == 3

\* LighterClient.__init__ and initialize: not running, no task handle kept, no
\* session of fetch_active_orders yet, one SDK client per account.  poller is
\* where the task made of start_polling() stands, close where close() stands.
LighterClient ==
    [running |-> FALSE,
     poll_task |-> "None",
     http_sessions |-> {},
     api_clients |-> [a \in {42} |-> "open"],
     poller |-> "none",
     wake |-> 0,
     cancelled |-> FALSE,
     close |-> "idle"]

\* AccountRestConnection.__init__
AccountRestConnection ==
    [connected |-> TRUE,
     last_successful_request |-> 0,
     last_failed_request |-> 0,
     total_requests |-> 0,
     successful_requests |-> 0,
     failed_requests |-> 0,
     retry_phase |-> 1,
     phase_attempts |-> 0,
     consecutive_failures |-> 0]

\* _reset_retry_state
reset_retry_state(conn) ==
    [conn EXCEPT !.retry_phase = 1, !.phase_attempts = 0]

\* an _advance_retry_phase that goes on to a further phase at every attempt
\* past phase 1
advance_retry_phase_Escalates(conn) ==
    LET attempts == conn.phase_attempts + 1
    IN  IF conn.retry_phase # 1 \/ attempts >= RETRY_PHASE_1_MAX_ATTEMPTS
        THEN [conn EXCEPT !.retry_phase = @ + 1, !.phase_attempts = 0]
        ELSE [conn EXCEPT !.phase_attempts = attempts]

\* _advance_retry_phase
advance_retry_phase(conn) ==
    LET attempts == conn.phase_attempts + 1
    IN  IF conn.retry_phase = 1 /\ attempts >= RETRY_PHASE_1_MAX_ATTEMPTS
        THEN [conn EXCEPT !.retry_phase = 2, !.phase_attempts = 0]
        ELSE [conn EXCEPT !.phase_attempts = attempts]

\* a record_success that forgets `self._connected = True`
record_success_StaysDown(conn, t) ==
    reset_retry_state(
        [conn EXCEPT !.total_requests = @ + 1,
                     !.successful_requests = @ + 1,
                     !.last_successful_request = t,
                     !.consecutive_failures = 0])

\* record_success
record_success(conn, t) ==
    reset_retry_state(
        [conn EXCEPT !.total_requests = @ + 1,
                     !.successful_requests = @ + 1,
                     !.last_successful_request = t,
                     !.connected = TRUE,
                     !.consecutive_failures = 0])

\* record_failure
record_failure(conn, t) ==
    LET c1 == [conn EXCEPT !.total_requests = @ + 1,
                           !.failed_requests = @ + 1,
                           !.last_failed_request = t,
                           !.consecutive_failures = @ + 1]
    IN  IF c1.consecutive_failures >= FAILURE_THRESHOLD
        THEN advance_retry_phase([c1 EXCEPT !.connected = FALSE])
        ELSE c1

\* a _get_retry_interval that never leaves the phase 1 interval
get_retry_interval_Phase1Only(conn) == RETRY_PHASE_1_INTERVAL

\* _get_retry_interval
get_retry_interval(conn) ==
    IF conn.retry_phase = 1 THEN RETRY_PHASE_1_INTERVAL ELSE RETRY_PHASE_2_INTERVAL

\* a should_skip_request that compares with <= instead of <
should_skip_request_Inclusive(conn, t) ==
    IF conn.connected THEN FALSE
    ELSE t - conn.last_failed_request <= get_retry_interval(conn)

\* should_skip_request
should_skip_request(conn, t) ==
    IF conn.connected THEN FALSE
    ELSE t - conn.last_failed_request < get_retry_interval(conn)

\* a force_reconnect that forgets `conn._connected = True`
force_reset_StaysDown(conn) ==
    [reset_retry_state(conn) EXCEPT !.consecutive_failures = 0]

\* the body of LighterClient.force_reconnect for a known account
force_reset(conn) ==
    [reset_retry_state(conn) EXCEPT !.connected = TRUE, !.consecutive_failures = 0]

(***************************************************************************)
(* Backend/lighter_client.py: LighterClient.  Every account of             *)
(* settings.accounts has its AccountApi and its signer (initialize         *)
(* succeeded), so a request that is not skipped is issued.                 *)
(***************************************************************************)
\* the accounts LighterClient.initialize registered
RestAccounts == {42}

AccountKey(account_index) == <<"account", account_index>>

\* the dict fetch_account_data caches and returns
AccountData(account_index, active_orders, t) ==
    [account_index |-> account_index, raw_data |-> "raw",
     active_orders |-> active_orders, last_update |-> t]

\* fetch_account_data up to its first suspension: either the backoff skip, which
\* returns the cached value, or the upstream call is issued
fetch_account_data_begin(conn, c, a, t) ==
    IF should_skip_request(conn, t)
    THEN [kind |-> "skip", cache |-> get(c, AccountKey(a), t).cache,
          ret |-> get(c, AccountKey(a), t).ret]
    ELSE [kind |-> "call", cache |-> c, ret |-> None]

\* fetch_active_orders up to its first suspension: the skip returns the stored
\* list of the account
fetch_active_orders_begin(conn, stored, t) ==
    IF should_skip_request(conn, t)
    THEN [kind |-> "skip", ret |-> Some(stored)]
    ELSE [kind |-> "call", ret |-> None]

\* the `all_orders.extend(result)` loop of fetch_all_active_orders
RECURSIVE ConcatResults(_, _)
ConcatResults(tasks, i) ==
    IF i > Len(tasks) THEN <<>> ELSE tasks[i].result \o ConcatResults(tasks, i + 1)

(***************************************************************************)
(* Backend/websocket_server.py: ConnectionManager.                         *)
(***************************************************************************)
\* the downstream websockets that may connect to /ws
Subscribers == {1, 2}

Broadcasts == 1..MaxBroadcasts

\* json.dumps(data): the text of a value
json_dumps(data) == [json |-> data]

\* the dict on_ws_message hands to manager.broadcast
LighterUpdate(data) == [type |-> "lighter_update", data |-> data]

\* the dict websocket_endpoint hands to manager.send_to_client
InitialData(cached_data) == [type |-> "initial_data", data |-> cached_data]

\* connect: self.active_connections.add(websocket)
connect(conns, websocket) == conns \cup {websocket}

\* a detach that is not idempotent: it puts back a websocket that is absent
disconnect_Toggle(conns, websocket) ==
    IF websocket \in conns THEN conns \ {websocket} ELSE conns \cup {websocket}

\* disconnect: self.active_connections.discard(websocket)
disconnect(conns, websocket) == conns \ {websocket}

\* websocket.send_text(message) returned: the frame is with the client
send_text(frames, message, by) == Append(frames, [frame |-> message, by |-> by])

\* a broadcast before it is called
NoBroadcast ==
    [pc |-> "idle", data |-> None, message |-> None, todo |-> {}, disconnected |-> {},
     start |-> {}, end |-> {}, failed |-> {}]

\* a loop body whose except branch gives up on everybody not yet written to
broadcast_step_DropsRest(bc, connection, ok) ==
    IF ok
    THEN [bc EXCEPT !.todo = @ \ {connection}]
    ELSE [bc EXCEPT !.todo = @ \ {connection},
                    !.disconnected = @ \cup bc.todo,
                    !.failed = @ \cup {connection}]

\* a loop body without its try: the exception of a write ends the loop
broadcast_step_AbortsLoop(bc, connection, ok) ==
    IF ok
    THEN [bc EXCEPT !.todo = @ \ {connection}]
    ELSE [bc EXCEPT !.todo = {},
                    !.disconnected = @ \cup {connection},
                    !.failed = @ \cup {connection}]

\* one round of `for connection in self.active_connections`, after send_text
\* returned (ok) or raised: the locals of broadcast afterwards
broadcast_step(bc, connection, ok) ==
    IF ok
    THEN [bc EXCEPT !.todo = @ \ {connection}]
    ELSE [bc EXCEPT !.todo = @ \ {connection},
                    !.disconnected = @ \cup {connection},
                    !.failed = @ \cup {connection}]

(***************************************************************************)
(* Backend/websocket_client.py: AccountWebSocketConnection, one upstream   *)
(* websocket per account, and the on_ws_message callback of api.py that    *)
(* its read loop awaits.                                                    *)
(***************************************************************************)
PING_INTERVAL == 30
PONG_TIMEOUT == 60

WS_RETRY_PHASE_1_INTERVAL == 60
WS_RETRY_PHASE_1_MAX_ATTEMPTS == 5
WS_RETRY_PHASE_2_INTERVAL == 300

\* the accounts of settings.accounts that get a connection
WsAccounts == {42, 43}

\* AccountWebSocketConnection.__init__.  task, ping_task and ws name the
\* connect task whose Task object, ping task or socket the field refers to
\* (0 for None).
AccountWebSocketConnection ==
    [running |-> FALSE,
     connected |-> FALSE,
     ws |-> 0,
     task |-> 0,
     ping_task |-> 0,
     last_pong_time |-> 0,
     last_message_time |-> 0,
     reconnect_count |-> 0,
     total_messages |-> 0,
     retry_phase |-> 1,
     phase_attempts |-> 0,
     session |-> 0]

\* a task made by asyncio.create_task(self.connect()) that has not run yet,
\* with the session, the socket and the ping task it will make
ConnectTask ==
    [pc |-> "created", cancelled |-> FALSE, sess |-> "none", sock |-> "none",
     ping |-> "none", wake |-> 0, ping_wake |-> 0, b |-> 0, data |-> None]

\* the callers of stop and force_reconnect, and a call not made yet
WsCallers == {1, 2}
NoCall == [pc |-> "idle", kind |-> "none", acc |-> 0, target |-> 0]

\* the history of an account at startup
NoWsHist == [closed |-> FALSE, count |-> 0, malformed |-> 0, raised |-> 0, fails |-> 0]

\* AccountWebSocketConnection._get_retry_interval
ws_get_retry_interval(conn) ==
    IF conn.retry_phase = 1 THEN WS_RETRY_PHASE_1_INTERVAL ELSE WS_RETRY_PHASE_2_INTERVAL

\* AccountWebSocketConnection._advance_retry_phase
ws_advance_retry_phase(conn) ==
    LET attempts == conn.phase_attempts + 1
    IN  IF conn.retry_phase = 1 /\ attempts >= WS_RETRY_PHASE_1_MAX_ATTEMPTS
        THEN [conn EXCEPT !.retry_phase = 2, !.phase_attempts = 0]
        ELSE [conn EXCEPT !.phase_attempts = attempts]

\* AccountWebSocketConnection._reset_retry_state
ws_reset_retry_state(conn) ==
    [conn EXCEPT !.retry_phase = 1, !.phase_attempts = 0]

\* connect, ws_connect returned: the assignments up to the creation of the
\* ping task, for the connect task i
ws_connected(conn, i, t) ==
    ws_reset_retry_state(
        [conn EXCEPT !.ws = i, !.connected = TRUE, !.last_pong_time = t,
                     !.last_message_time = t, !.ping_task = i])

\* connect, the two except branches: both count a reconnect, advance the
\* retry phase and mark the connection down
ws_connect_raised(conn) ==
    [ws_advance_retry_phase([conn EXCEPT !.reconnect_count = @ + 1])
        EXCEPT !.connected = FALSE]

\* self._ping_task.cancel() on the ping task the connection refers to
CancelPing(tasks, j) ==
    IF j = 0 THEN tasks
    ELSE [tasks EXCEPT ![j].ping = IF @ = "none" THEN "none" ELSE "done"]

\* ws.close() on the socket the connection refers to
CloseSocket(tasks, j) ==
    IF j = 0 THEN tasks
    ELSE [tasks EXCEPT ![j].sock = IF @ = "none" THEN "none" ELSE "closed"]

\* session.close() on the session the connection refers to: its connector
\* closes the connection of its socket with it
CloseSession(tasks, j) ==
    IF j = 0 THEN tasks
    ELSE [tasks EXCEPT ![j].sess = IF @ = "none" THEN "none" ELSE "closed",
                       ![j].sock = IF @ = "none" THEN "none" ELSE "closed"]

\* `self._session and not self._session.closed`
SessionOpen(conn, tasks) ==
    conn.session # 0 /\ tasks[conn.session].sess = "open"

\* connect, the finally block: the ping task is cancelled and forgotten, a
\* session that is still open is closed and forgotten
ws_connect_finally(conn, tasks) ==
    [conn |-> [conn EXCEPT !.ping_task = 0,
                           !.session = IF SessionOpen(conn, tasks) THEN 0 ELSE @],
     tasks |-> CloseSession(CancelPing(tasks, conn.ping_task),
                            IF SessionOpen(conn, tasks) THEN conn.session ELSE 0)]

\* the bottom of the loop body of connect and the `while self.running` test
\* after it
ws_loop_bottom(conn, task, t) ==
    IF conn.running
    THEN [task EXCEPT !.pc = "sleeping", !.wake = t + ws_get_retry_interval(conn)]
    ELSE [task EXCEPT !.pc = "done"]

\* connect task i leaves the `async with ws_connect` block, which closes its
\* socket, by the end of the read loop or by an exception, runs the finally
\* block and reaches the bottom of the loop body
ws_leave(conn, tasks, i, raised, t) ==
    LET f == ws_connect_finally(IF raised THEN ws_connect_raised(conn) ELSE conn,
                                CloseSocket(tasks, i))
    IN  [conn |-> f.conn,
         tasks |-> [f.tasks EXCEPT ![i] = ws_loop_bottom(f.conn, f.tasks[i], t)]]

\* a text frame arrived: the bookkeeping before _notify_callbacks
ws_text_received(conn, t) ==
    [conn EXCEPT !.last_message_time = t, !.total_messages = @ + 1]

\* _handle_pong
handle_pong(conn, t) == [conn EXCEPT !.last_pong_time = t]

\* max(a, b)
max(a, b) == IF a >= b THEN a ELSE b

\* _ping_loop: time_since_last_activity > PONG_TIMEOUT
ping_timed_out(conn, t) ==
    t - max(conn.last_pong_time, conn.last_message_time) > PONG_TIMEOUT

\* a frame of the channel account_all_orders/<id> or account_all_positions/<id>
ListFrame(channel, id, items) ==
    [channel |-> channel, suffix |-> [ok |-> TRUE, id |-> id], items |-> items]

OrdersKey(account_id) == <<"ws_orders", account_id>>
PositionsKey(account_id) == <<"ws_positions", account_id>>

UpdateKey(account_index) == <<"ws_update", account_index>>

\* an on_ws_message that stores the lists of the channels with no ttl of
\* their own, so that they expire with the default
on_ws_message_cache_DefaultTtl(c, data, t) ==
    IF data.channel = "account_all_orders"
    THEN IF data.suffix.ok
         THEN set(c, OrdersKey(data.suffix.id), [orders |-> data.items, timestamp |-> t],
                  NoneInt, t)
         ELSE c
    ELSE IF data.channel = "account_all_positions"
    THEN IF data.suffix.ok
         THEN set(c, PositionsKey(data.suffix.id),
                  [positions |-> data.items, timestamp |-> t], NoneInt, t)
         ELSE c
    ELSE IF data.channel = "account_all_trades"
    THEN on_ws_message_trades(c, data, t).cache
    ELSE IF "account_index" \in DOMAIN data
    THEN set(c, UpdateKey(data.account_index), data, NoneInt, t)
    ELSE c

\* on_ws_message after manager.broadcast returned: the cache write of the
\* channel of the frame; a frame of no channel that carries account_index is
\* stored whole
on_ws_message_cache(c, data, t) ==
    IF data.channel = "account_all_orders"
    THEN IF data.suffix.ok
         THEN set(c, OrdersKey(data.suffix.id), [orders |-> data.items, timestamp |-> t], 120, t)
         ELSE c
    ELSE IF data.channel = "account_all_positions"
    THEN IF data.suffix.ok
         THEN set(c, PositionsKey(data.suffix.id),
                  [positions |-> data.items, timestamp |-> t], 120, t)
         ELSE c
    ELSE IF data.channel = "account_all_trades"
    THEN on_ws_message_trades(c, data, t).cache
    ELSE IF "account_index" \in DOMAIN data
    THEN set(c, UpdateKey(data.account_index), data, NoneInt, t)
    ELSE c

\* on_ws_message ends with an exception: the trade merge raised one that its
\* `except (ValueError, TypeError)` does not take
on_ws_message_raises(c, data, t) ==
    /\ data.channel = "account_all_trades"
    /\ on_ws_message_trades(c, data, t).outcome \in {"raised", "aborted"}

\* a read loop that lets the exception of a callback through (no try in
\* _notify_callbacks and none around the dispatch): it reaches the `except
\* Exception` branch of the outer try of connect, which ends the connection
notify_callbacks_Propagates(conn, tasks, i, raised, t) ==
    IF raised
    THEN ws_leave(conn, [tasks EXCEPT ![i].b = 0, ![i].data = None], i, TRUE, t)
    ELSE [conn |-> conn,
          tasks |-> [tasks EXCEPT ![i].pc = "reading", ![i].b = 0, ![i].data = None]]

\* _notify_callbacks returns to the read loop of connect task i: an exception
\* of the callback is logged by its `except Exception`, and the loop takes
\* the next message either way
notify_callbacks(conn, tasks, i, raised, t) ==
    [conn |-> conn,
     tasks |-> [tasks EXCEPT ![i].pc = "reading", ![i].b = 0, ![i].data = None]]

(***************************************************************************)
(* Backend/error_collector.py: ErrorCollector.  account_index,             *)
(* account_name, error_code and the message of an entry are carried along  *)
(* and left out.                                                           *)
(***************************************************************************)
\* ErrorCollector.__init__(max_errors=100), the maxlen of the deque.  The
\* model scales it down so that the ring fills, and every claim is stated
\* relative to it.
max_errors == 2

ErrorEntry(timestamp, error_type, source) ==
    [timestamp |-> timestamp, error_type |-> error_type, source |-> source]

\* f"{source}:{error_type}"
CountKey(source, error_type) == <<source, error_type>>

\* the module-level ErrorCollector().  log (every entry ever added), cleared
\* (how many of them were added before the last clear) and ret (the last call
\* of get_recent_errors) are history.
ErrorCollector ==
    [errors |-> <<>>, error_counts |-> EmptyDict, log |-> <<>>, cleared |-> 0,
     ret |-> None]

\* deque(maxlen=n).append(e): a full deque drops from the left
deque_append(d, e, n) == LastN(Append(d, e), n)

\* a ring that keeps what it has when it is full
add_error_KeepsOldest(c, error_type, source, t) ==
    LET entry == ErrorEntry(t, error_type, source)
        key == CountKey(source, error_type)
    IN  [c EXCEPT !.errors = FirstN(Append(c.errors, entry), max_errors),
                  !.error_counts =
                      DictPut(c.error_counts, key,
                              IF key \in DOMAIN c.error_counts
                              THEN c.error_counts[key] + 1 ELSE 1),
                  !.log = Append(c.log, entry)]

\* ErrorCollector.add_error
add_error(c, error_type, source, t) ==
    LET entry == ErrorEntry(t, error_type, source)
        key == CountKey(source, error_type)
    IN  [c EXCEPT !.errors = deque_append(c.errors, entry, max_errors),
                  !.error_counts =
                      DictPut(c.error_counts, key,
                              IF key \in DOMAIN c.error_counts
                              THEN c.error_counts[key] + 1 ELSE 1),
                  !.log = Append(c.log, entry)]

\* ErrorCollector.clear
collector_clear(c) ==
    [c EXCEPT !.errors = <<>>, !.error_counts = EmptyDict, !.cleared = Len(c.log)]

\* sorted(errors, key=lambda e: e.timestamp, reverse=True), entry by entry:
\* the sort is stable, so an entry goes behind the entries of its timestamp
\* that came before it
RECURSIVE sorted_by_timestamp_reverse(_, _)
sorted_by_timestamp_reverse(errors, i) ==
    IF i = 0 THEN <<>>
    ELSE LET before == sorted_by_timestamp_reverse(errors, i - 1)
             k == Cardinality({j \in 1..Len(before) :
                                  before[j].timestamp >= errors[i].timestamp})
         IN  SubSeq(before, 1, k) \o <<errors[i]>> \o SubSeq(before, k + 1, Len(before))

\* lst[:n] for any int n
SliceTo(lst, n) ==
    IF n >= 0 THEN FirstN(lst, n)
    ELSE FirstN(lst, IF Len(lst) + n > 0 THEN Len(lst) + n ELSE 0)

\* ErrorCollector.get_recent_errors: the entries returned ("" stands for no
\* source; `if source` takes None and "" alike)
get_recent_errors(c, limit, source) ==
    LET errors == IF source # ""
                  THEN SelectSeq(c.errors, LAMBDA e : e.source = source)
                  ELSE c.errors
    IN  SliceTo(sorted_by_timestamp_reverse(errors, Len(errors)), limit)

(***************************************************************************)
(* SpecCache: the cache driven by arbitrary callers.                       *)
(***************************************************************************)
CacheKeys == {"k1", "k2"}
CacheValues == {"v1", "v2"}
\* the ttl arguments callers pass: None, 0, 1, 2
TtlArgs == {NoneInt, 0, 1, 2}

NoRet == [op |-> "none"]

InitCommon ==
    /\ now = StartTime
    /\ cache = EmptyDict
    /\ cacheRet = NoRet
    /\ lastSet = EmptyDict
    /\ wsFrame = None
    /\ wsOutcome = "none"
    /\ wsCalls = 0
    /\ lighter = LighterClient
    /\ collector = ErrorCollector
    /\ rest = [a \in RestAccounts |-> AccountRestConnection]
    /\ pollPc = [a \in RestAccounts |-> "idle"]
    /\ orderTasks = [a \in RestAccounts |-> <<>>]
    /\ cached_orders = [a \in RestAccounts |-> <<>>]
    /\ restErrors = 0
    /\ calls = [a \in RestAccounts |-> 0]
    /\ hist = [a \in RestAccounts |-> [fails |-> 0]]
    /\ lastReq = [poll |-> [kind |-> "none"], orders |-> [kind |-> "none"]]
    /\ resetHist = [a \in RestAccounts |->
                        [just |-> FALSE, fresh |-> FALSE, down |-> FALSE]]
    /\ active_connections = {}
    /\ lock = 0
    /\ subPc = [w \in Subscribers |-> "new"]
    /\ inbox = [w \in Subscribers |-> <<>>]
    /\ bcast = [b \in Broadcasts |-> NoBroadcast]
    /\ wsConn = [a \in WsAccounts |-> AccountWebSocketConnection]
    /\ wsTasks = [a \in WsAccounts |-> <<>>]
    /\ wsOps = [c \in WsCallers |-> NoCall]
    /\ wsHist = [a \in WsAccounts |-> NoWsHist]

InitCache ==
    /\ InitCommon
    /\ supabase_initialized = FALSE

Get(key) ==
    LET r == get(cache, key, now)
    IN  /\ cache' = r.cache
        /\ cacheRet' = [op |-> "get", key |-> key, at |-> now, ret |-> r.ret]
        /\ UNCHANGED <<now, lastSet, wsVars, restVars, supabase_initialized, collector, lighter, hubVars>>

Set(key, data, ttl) ==
    /\ cache' = set(cache, key, data, ttl, now)
    /\ cacheRet' = [op |-> "set", key |-> key, at |-> now]
    /\ lastSet' = DictPut(lastSet, key, [data |-> data, ttl |-> ttl, at |-> now])
    /\ UNCHANGED <<now, wsVars, restVars, supabase_initialized, collector, lighter, hubVars>>

GetAll ==
    LET r == get_all(cache, now)
    IN  /\ cache' = r.cache
        /\ cacheRet' = [op |-> "get_all", at |-> now, ret |-> r.ret, before |-> cache]
        /\ UNCHANGED <<now, lastSet, wsVars, restVars, supabase_initialized, collector, lighter, hubVars>>

Clear ==
    /\ cache' = clear(cache)
    /\ cacheRet' = [op |-> "clear", at |-> now]
    /\ lastSet' = EmptyDict
    /\ UNCHANGED <<now, wsVars, restVars, supabase_initialized, collector, lighter, hubVars>>

GetStats ==
    /\ cacheRet' = [op |-> "get_stats", at |-> now, ret |-> get_stats(cache, now)]
    /\ UNCHANGED <<now, cache, lastSet, wsVars, restVars, supabase_initialized, collector, lighter, hubVars>>

TickCache ==
    /\ now < StartTime + CacheHorizon
    /\ now' = now + 1
    /\ UNCHANGED <<cacheVars, wsVars, restVars, supabase_initialized, collector, lighter, hubVars>>

NextCache ==
    \/ \E key \in CacheKeys : Get(key)
    \/ \E key \in CacheKeys, data \in CacheValues, ttl \in TtlArgs : Set(key, data, ttl)
    \/ GetAll
    \/ Clear
    \/ GetStats
    \/ TickCache

(***************************************************************************)
(* SpecTrades: on_ws_message fed account_all_trades frames, with no         *)
(* subscriber attached to the hub (manager.broadcast returns at once, so    *)
(* each call is one atomic step).                                           *)
(***************************************************************************)
tA == Trade(1, 0, 0, 1)
\* the same id as tA with another content
tA2 == Trade(1, 0, 0, 2)
tB == Trade(2, 0, 0, 1)
\* no id: the key is trade_id, equal to the key of tA
tU == Trade(0, 1, 0, 1)
\* no id, no trade_id: the key is timestamp, equal to the key of tB
tT == Trade(0, 0, 2, 1)
\* no key at all
tN == Trade(0, 0, 0, 1)

\* n trades with the ids first, first + 1, ...
Block(first, n) == [i \in 1..n |-> Trade(first + i - 1, 0, 0, 1)]

List(items) == [isList |-> TRUE, items |-> items]
NotAList == [isList |-> FALSE]
Dict(items) == [isDict |-> TRUE, items |-> items]
NotADict == [isDict |-> FALSE]
OneMarket(m, items) == Dict([k \in {m} |-> List(items)])

\* data.get("total_volume") ...: None when the frame has no such field
NoVolumes ==
    [total_volume |-> None, monthly_volume |-> None,
     weekly_volume |-> None, daily_volume |-> None]
SomeVolumes ==
    [total_volume |-> Some(1000), monthly_volume |-> Some(500),
     weekly_volume |-> Some(200), daily_volume |-> Some(100)]

TradesFrame(ok, id, trades, volumes) ==
    [channel |-> "account_all_trades", suffix |-> [ok |-> ok, id |-> id],
     trades |-> trades, volumes |-> volumes]

\* the frames the upstream may deliver
Frames ==
    << TradesFrame(TRUE, 9, OneMarket(1, <<tA>>), NoVolumes),
       TradesFrame(TRUE, 9, OneMarket(1, <<tA, tA2>>), SomeVolumes),
       TradesFrame(TRUE, 9, OneMarket(1, <<tA2, tB>>), NoVolumes),
       TradesFrame(TRUE, 9, OneMarket(1, <<tU, tT, tN>>), NoVolumes),
       TradesFrame(TRUE, 9, OneMarket(1, Block(10, MAX_TRADES_PER_MARKET - 1)), NoVolumes),
       TradesFrame(TRUE, 9, OneMarket(1, Block(10, MAX_TRADES_PER_MARKET + 1)), NoVolumes),
       TradesFrame(TRUE, 9, OneMarket(3, <<tB, tA>>), SomeVolumes),
       TradesFrame(TRUE, 9, OneMarket(3, <<tN, tU>>), NoVolumes),
       TradesFrame(TRUE, 9, Dict([k \in {1, 3} |->
                       IF k = 1 THEN List(<<tB>>) ELSE List(<<tA2>>)]), NoVolumes),
       TradesFrame(TRUE, 9, Dict([k \in {1, 3} |->
                       IF k = 1 THEN NotAList ELSE List(<<tT>>)]), NoVolumes),
       TradesFrame(TRUE, 9, NotADict, SomeVolumes),
       TradesFrame(TRUE, 9, OneMarket(1, <<tB, NotATrade>>), SomeVolumes),
       TradesFrame(TRUE, 7, OneMarket(1, <<tA>>), SomeVolumes),
       TradesFrame(FALSE, 0, OneMarket(1, <<tA>>), NoVolumes) >>

InitTrades ==
    /\ InitCommon
    /\ supabase_initialized \in BOOLEAN

\* one call of on_ws_message(Frames[f])
OnWsMessage(f) ==
    LET r == on_ws_message_trades(cache, Frames[f], now)
    IN  /\ wsCalls < MaxFrames
        /\ wsCalls' = wsCalls + 1
        /\ wsFrame' = [none |-> FALSE, index |-> f, at |-> now, before |-> cache]
        /\ wsOutcome' = r.outcome
        /\ cache' = r.cache
        /\ UNCHANGED <<now, cacheRet, lastSet, restVars, supabase_initialized, collector, lighter, hubVars,
                       connVars>>

TickTrades ==
    /\ now < StartTime + 1800 * TradesTicks
    /\ now' = now + 1800
    /\ UNCHANGED <<cacheVars, wsVars, restVars, supabase_initialized, collector, lighter, hubVars>>

NextTrades ==
    \/ \E f \in 1..Len(Frames) : OnWsMessage(f)
    \/ TickTrades

(***************************************************************************)
(* SpecRest: the poller and the operator reset of one account, with the    *)
(* upstream answering as it likes.  SpecRestOrders adds requests of the    *)
(* same account that run in parallel, the per-market order fetches of a    *)
(* gather, over a shorter run.                                             *)
(***************************************************************************)
InitRest ==
    /\ InitCommon
    /\ supabase_initialized \in BOOLEAN

\* a request of account a ended: record_success or record_failure ran
Ended(h, a) == [h EXCEPT ![a].just = FALSE]

\* a poll tick: start_polling -> fetch_all_accounts -> fetch_account_data
PollBegin(a, maxRequests) ==
    LET r == fetch_account_data_begin(rest[a], cache, a, now)
    IN  /\ pollPc[a] = "idle"
        /\ r.kind = "call" => calls[a] < maxRequests
        /\ pollPc' = [pollPc EXCEPT ![a] = IF r.kind = "call" THEN "awaiting" ELSE "idle"]
        /\ calls' = [calls EXCEPT ![a] = IF r.kind = "call" THEN @ + 1 ELSE @]
        /\ cache' = r.cache
        /\ lastReq' = [lastReq EXCEPT !.poll = [acc |-> a, kind |-> r.kind, ret |-> r.ret]]
        /\ resetHist' = [resetHist EXCEPT ![a].fresh = FALSE]
        /\ UNCHANGED <<now, cacheRet, lastSet, wsVars, supabase_initialized, collector, lighter, hubVars,
                       rest, orderTasks, cached_orders, restErrors, hist>>

\* account_api.account(...) returned: record_success, cache.set, and then the
\* write-through branch, where _get_exchange_for_account reads the undeclared
\* account.exchange; the AttributeError lands in `except Exception`.
\* _last_snapshot_times is never written before that, so the branch is
\* entered on every success of a run with the sink initialized.
PollSucceeds(a, maxSuccesses) ==
    LET c1 == record_success(rest[a], now)
        raised == supabase_initialized
    IN  /\ pollPc[a] = "awaiting"
        /\ rest[a].successful_requests < maxSuccesses
        /\ pollPc' = [pollPc EXCEPT ![a] = "idle"]
        /\ cache' = set(cache, AccountKey(a), AccountData(a, cached_orders[a], now),
                        NoneInt, now)
        /\ rest' = [rest EXCEPT ![a] = IF raised THEN record_failure(c1, now) ELSE c1]
        /\ restErrors' = IF raised THEN restErrors + 1 ELSE restErrors
        /\ hist' = [hist EXCEPT ![a].fails = IF raised THEN 1 ELSE 0]
        /\ resetHist' = Ended(resetHist, a)
        /\ UNCHANGED <<now, cacheRet, lastSet, wsVars, supabase_initialized, collector, lighter, hubVars,
                       orderTasks, cached_orders, calls, lastReq>>

\* a failure recorded on one tracker shared by all accounts
PollFails_SharedTracker(a) ==
    /\ pollPc[a] = "awaiting"
    /\ pollPc' = [pollPc EXCEPT ![a] = "idle"]
    /\ rest' = [x \in DOMAIN rest |-> record_failure(rest[x], now)]
    /\ restErrors' = restErrors + 1
    /\ hist' = [hist EXCEPT ![a].fails = @ + 1]
    /\ resetHist' = Ended(resetHist, a)
    /\ UNCHANGED <<now, cacheVars, wsVars, supabase_initialized, collector, lighter, hubVars,
                   orderTasks, cached_orders, calls, lastReq>>

\* account_api.account(...) raised (asyncio.TimeoutError or another exception,
\* an HTTP 429 among them)
PollFails(a) ==
    /\ pollPc[a] = "awaiting"
    /\ pollPc' = [pollPc EXCEPT ![a] = "idle"]
    /\ rest' = [rest EXCEPT ![a] = record_failure(@, now)]
    /\ restErrors' = restErrors + 1
    /\ hist' = [hist EXCEPT ![a].fails = @ + 1]
    /\ resetHist' = Ended(resetHist, a)
    /\ UNCHANGED <<now, cacheVars, wsVars, supabase_initialized, collector, lighter, hubVars,
                   orderTasks, cached_orders, calls, lastReq>>

\* fetch_all_active_orders is called with no market, or with two: one task each
OrdersGather(a, markets) ==
    /\ orderTasks[a] = <<>>
    /\ Len(cached_orders[a]) * Len(markets) <= MaxOrders
    /\ IF markets = <<>>
       THEN /\ cached_orders' = [cached_orders EXCEPT ![a] = <<>>]
            /\ UNCHANGED orderTasks
       ELSE /\ orderTasks' = [orderTasks EXCEPT ![a] =
                   [i \in 1..Len(markets) |->
                       [market |-> markets[i], st |-> "pending", result |-> <<>>]]]
            /\ UNCHANGED cached_orders
    /\ UNCHANGED <<now, cacheVars, wsVars, supabase_initialized, collector, lighter, hubVars,
                   rest, pollPc, restErrors, calls, hist, lastReq, resetHist>>

\* the tasks of a gather start in the order they were created
FirstPending(tasks) ==
    CHOOSE i \in 1..Len(tasks) :
        /\ tasks[i].st = "pending"
        /\ \A j \in 1..(i - 1) : tasks[j].st # "pending"

\* a fetch_active_orders task runs up to its first suspension
OrderBegin(a, maxRequests) ==
    /\ \E i \in 1..Len(orderTasks[a]) : orderTasks[a][i].st = "pending"
    /\ LET i == FirstPending(orderTasks[a])
           r == fetch_active_orders_begin(rest[a], cached_orders[a], now)
       IN  /\ r.kind = "call" => calls[a] < maxRequests
           /\ orderTasks' = [orderTasks EXCEPT ![a][i] =
                  IF r.kind = "call"
                  THEN [@ EXCEPT !.st = "inflight"]
                  ELSE [@ EXCEPT !.st = "done", !.result = r.ret.val]]
           /\ calls' = [calls EXCEPT ![a] = IF r.kind = "call" THEN @ + 1 ELSE @]
           /\ lastReq' = [lastReq EXCEPT !.orders = [acc |-> a, kind |-> r.kind]]
    /\ UNCHANGED <<now, cacheVars, wsVars, supabase_initialized, collector, lighter, hubVars,
                   rest, pollPc, cached_orders, restErrors, hist, resetHist>>

\* the upstream answered 200: record_success, the orders of the market
OrderSucceeds(a, i, maxSuccesses) ==
    /\ i \in 1..Len(orderTasks[a])
    /\ rest[a].successful_requests < maxSuccesses
    /\ orderTasks[a][i].st = "inflight"
    /\ orderTasks' = [orderTasks EXCEPT ![a][i] =
           [@ EXCEPT !.st = "done", !.result = <<orderTasks[a][i].market>>]]
    /\ rest' = [rest EXCEPT ![a] = record_success(@, now)]
    /\ hist' = [hist EXCEPT ![a].fails = 0]
    /\ resetHist' = Ended(resetHist, a)
    /\ UNCHANGED <<now, cacheVars, wsVars, supabase_initialized, collector, lighter, hubVars,
                   pollPc, cached_orders, restErrors, calls, lastReq>>

\* the upstream answered 429 or another status, or the request timed out or raised
OrderFails(a, i) ==
    /\ i \in 1..Len(orderTasks[a])
    /\ orderTasks[a][i].st = "inflight"
    /\ orderTasks' = [orderTasks EXCEPT ![a][i] = [@ EXCEPT !.st = "done"]]
    /\ rest' = [rest EXCEPT ![a] = record_failure(@, now)]
    /\ restErrors' = restErrors + 1
    /\ hist' = [hist EXCEPT ![a].fails = @ + 1]
    /\ resetHist' = Ended(resetHist, a)
    /\ UNCHANGED <<now, cacheVars, wsVars, supabase_initialized, collector, lighter, hubVars,
                   pollPc, cached_orders, calls, lastReq>>

\* asyncio.gather returned: the results are concatenated and stored
OrdersDone(a) ==
    /\ orderTasks[a] # <<>>
    /\ \A i \in 1..Len(orderTasks[a]) : orderTasks[a][i].st = "done"
    /\ cached_orders' = [cached_orders EXCEPT ![a] = ConcatResults(orderTasks[a], 1)]
    /\ orderTasks' = [orderTasks EXCEPT ![a] = <<>>]
    /\ UNCHANGED <<now, cacheVars, wsVars, supabase_initialized, collector, lighter, hubVars,
                   rest, pollPc, restErrors, calls, hist, lastReq, resetHist>>

\* LighterClient.force_reconnect(a), the operator's reset
ForceReconnect(a) ==
    /\ rest' = [rest EXCEPT ![a] = force_reset(@)]
    /\ hist' = [hist EXCEPT ![a].fails = 0]
    /\ resetHist' = [resetHist EXCEPT ![a] =
                        [just |-> TRUE, fresh |-> TRUE, down |-> ~rest[a].connected]]
    /\ UNCHANGED <<now, cacheVars, wsVars, supabase_initialized, collector, lighter, hubVars,
                   pollPc, orderTasks, cached_orders, restErrors, calls, lastReq>>

TickRest(ticks) ==
    /\ now < StartTime + RestStep * ticks
    /\ now' = now + RestStep
    /\ UNCHANGED <<cacheVars, wsVars, supabase_initialized, collector, lighter, hubVars, restVars>>

NextRest ==
    \/ \E a \in RestAccounts : PollBegin(a, MaxRequests)
    \/ \E a \in RestAccounts : PollSucceeds(a, MaxRequests)
    \/ \E a \in RestAccounts : PollFails(a)
    \/ \E a \in RestAccounts : ForceReconnect(a)
    \/ TickRest(RestTicks)

NextRestOrders ==
    \/ \E a \in RestAccounts : PollBegin(a, OrdersMaxRequests)
    \/ \E a \in RestAccounts : PollSucceeds(a, OrdersMaxSuccesses)
    \/ \E a \in RestAccounts : PollFails(a)
    \/ \E a \in RestAccounts, markets \in {<<>>, <<1, 3>>} : OrdersGather(a, markets)
    \/ \E a \in RestAccounts : OrderBegin(a, OrdersMaxRequests)
    \/ \E a \in RestAccounts, i \in 1..2 : OrderSucceeds(a, i, OrdersMaxSuccesses)
    \/ \E a \in RestAccounts, i \in 1..2 : OrderFails(a, i)
    \/ \E a \in RestAccounts : OrdersDone(a)
    \/ \E a \in RestAccounts : ForceReconnect(a)
    \/ TickRest(OrdersTicks)

(***************************************************************************)
(* SpecHub: downstream websockets come and go while on_ws_message calls    *)
(* manager.broadcast, from the read loops of several upstream connections. *)
(* Every await is a step of its own.                                        *)
(***************************************************************************)
BroadcastData == {"d1", "d2"}

InitHub ==
    /\ InitCommon
    /\ supabase_initialized = FALSE

\* the socket of a downstream websocket takes frames
IsOpen(w) == subPc[w] \in {"attached", "listening"}

\* manager.broadcast(data) is called: the emptiness test, json.dumps, and the
\* lock, taken at once when it is free
BroadcastCall(b, d) ==
    /\ bcast[b].pc = "idle"
    /\ \A c \in Broadcasts : c < b => bcast[c].pc # "idle"
    /\ bcast' = [bcast EXCEPT ![b] =
           IF active_connections = {}
           THEN [@ EXCEPT !.pc = "returned", !.data = LighterUpdate(d)]
           ELSE [@ EXCEPT !.pc = IF lock = 0 THEN "sending" ELSE "waiting",
                          !.data = LighterUpdate(d),
                          !.message = json_dumps(LighterUpdate(d)),
                          !.todo = IF lock = 0 THEN active_connections ELSE {},
                          !.start = active_connections]]
    /\ lock' = IF active_connections # {} /\ lock = 0 THEN b ELSE lock

\* a call of manager.broadcast from a read loop the model does not follow
BroadcastBegin(b, d) ==
    /\ BroadcastCall(b, d)
    /\ b = 1 => d = "d1"
    /\ UNCHANGED <<now, cacheVars, wsVars, restVars, supabase_initialized, collector, lighter,
                   active_connections, subPc, inbox>>

\* the lock comes free for a broadcast that waited for it; with nobody left in
\* the set the loop is over at once
BroadcastAcquire(b) ==
    /\ bcast[b].pc = "waiting"
    /\ lock = 0
    /\ lock' = IF active_connections = {} THEN 0 ELSE b
    /\ bcast' = [bcast EXCEPT ![b] =
           IF active_connections = {}
           THEN [@ EXCEPT !.pc = "returned"]
           ELSE [@ EXCEPT !.pc = "sending", !.todo = active_connections]]
    /\ UNCHANGED <<now, cacheVars, wsVars, restVars, supabase_initialized, collector, lighter,
                   active_connections, subPc, inbox>>

\* connection.send_text(message) returns, or raises; after the last connection
\* the loop is over and the lock is released
BroadcastSend(b, w, ok) ==
    LET bc == broadcast_step(bcast[b], w, ok)
    IN  /\ bcast[b].pc = "sending"
        /\ w \in bcast[b].todo
        /\ ok => IsOpen(w)
        /\ inbox' = IF ok THEN [inbox EXCEPT ![w] = send_text(@, bcast[b].message, b)]
                          ELSE inbox
        /\ lock' = IF bc.todo = {} THEN 0 ELSE lock
        /\ bcast' = [bcast EXCEPT ![b] =
               IF bc.todo # {} THEN bc
               ELSE IF bc.disconnected = {}
                    THEN [bc EXCEPT !.pc = "returned", !.end = active_connections]
                    ELSE [bc EXCEPT !.pc = "detaching"]]
        /\ UNCHANGED <<now, cacheVars, wsVars, restVars, supabase_initialized, collector, lighter,
                       active_connections, subPc>>

\* `for conn in disconnected: await self.disconnect(conn)`, one round
BroadcastDetach(b, w) ==
    /\ bcast[b].pc = "detaching"
    /\ w \in bcast[b].disconnected
    /\ lock = 0
    /\ active_connections' = disconnect(active_connections, w)
    /\ bcast' = [bcast EXCEPT ![b] =
           IF bcast[b].disconnected = {w}
           THEN [@ EXCEPT !.pc = "returned", !.disconnected = {},
                          !.end = disconnect(active_connections, w)]
           ELSE [@ EXCEPT !.disconnected = @ \ {w}]]
    /\ UNCHANGED <<now, cacheVars, wsVars, restVars, supabase_initialized, collector, lighter,
                   lock, subPc, inbox>>

\* websocket_endpoint, manager.connect: websocket.accept() returned and the
\* websocket joins the set, under the lock.  (Until then nothing of the
\* websocket is visible to the hub, so the two awaits are one step; the
\* websockets are numbered in the order they join.)
SubAttach(w) ==
    /\ subPc[w] = "new"
    /\ \A v \in Subscribers : v < w => subPc[v] # "new"
    /\ lock = 0
    /\ active_connections' = connect(active_connections, w)
    /\ subPc' = [subPc EXCEPT ![w] = "attached"]
    /\ UNCHANGED <<now, cacheVars, wsVars, restVars, supabase_initialized, collector, lighter,
                   lock, inbox, bcast>>

\* websocket_endpoint: cache.get_all() and send_to_client(initial_data), which
\* logs a failed write and goes on
SubInitialData(w, ok) ==
    LET r == get_all(cache, now)
    IN  /\ subPc[w] = "attached"
        /\ cache' = r.cache
        /\ inbox' = IF ok
                    THEN [inbox EXCEPT ![w] = send_text(@, json_dumps(InitialData(r.ret)), 0)]
                    ELSE inbox
        /\ subPc' = [subPc EXCEPT ![w] = "listening"]
        /\ UNCHANGED <<now, cacheRet, lastSet, wsVars, restVars, supabase_initialized, collector, lighter,
                       active_connections, lock, bcast>>

\* the client goes away: the socket takes no more frames, and receive_text
\* raises in websocket_endpoint
ClientCloses(w) ==
    /\ IsOpen(w)
    /\ subPc' = [subPc EXCEPT ![w] = "closing"]
    /\ UNCHANGED <<now, cacheVars, wsVars, restVars, supabase_initialized, collector, lighter,
                   active_connections, lock, inbox, bcast>>

\* websocket_endpoint's except branches: manager.disconnect, under the lock
SubDetach(w) ==
    /\ subPc[w] = "closing"
    /\ lock = 0
    /\ active_connections' = disconnect(active_connections, w)
    /\ subPc' = [subPc EXCEPT ![w] = "done"]
    /\ UNCHANGED <<now, cacheVars, wsVars, restVars, supabase_initialized, collector, lighter,
                   lock, inbox, bcast>>

NextHub ==
    \/ \E b \in Broadcasts, d \in BroadcastData : BroadcastBegin(b, d)
    \/ \E b \in Broadcasts : BroadcastAcquire(b)
    \/ \E b \in Broadcasts, w \in Subscribers, ok \in BOOLEAN : BroadcastSend(b, w, ok)
    \/ \E b \in Broadcasts, w \in Subscribers : BroadcastDetach(b, w)
    \/ \E w \in Subscribers : SubAttach(w)
    \/ \E w \in Subscribers, ok \in BOOLEAN : SubInitialData(w, ok)
    \/ \E w \in Subscribers : ClientCloses(w)
    \/ \E w \in Subscribers : SubDetach(w)

(***************************************************************************)
(* The upstream connections: the connect task of an account with its ping  *)
(* task, the frames it reads, and the callers of stop and force_reconnect. *)
(* A step runs a task from one suspension to the next; the awaits of the    *)
(* cleanup code (the cancelled ping task, session.close) are taken with the *)
(* step that reaches them.                                                  *)
(***************************************************************************)
\* AccountWebSocketConnection.start, called once for every account by
\* LighterWebSocketClient.start
WsStart(a) ==
    /\ wsConn[a].task = 0
    /\ wsConn' = [wsConn EXCEPT ![a].running = TRUE, ![a].task = Len(wsTasks[a]) + 1]
    /\ wsTasks' = [wsTasks EXCEPT ![a] = Append(@, ConnectTask)]
    /\ UNCHANGED <<now, cacheVars, wsFrame, wsOutcome, wsCalls, wsOps, wsHist, restVars,
                   supabase_initialized, collector, lighter, hubVars>>

\* connect: a new task runs, or the retry sleep is over: `while self.running`,
\* a new session, and on to ws_connect
WsLoopTop(a, i) ==
    /\ i \in 1..Len(wsTasks[a])
    /\ ~wsTasks[a][i].cancelled
    /\ \/ wsTasks[a][i].pc = "created"
       \/ wsTasks[a][i].pc = "sleeping" /\ now >= wsTasks[a][i].wake
    /\ IF wsConn[a].running
       THEN /\ wsTasks' = [wsTasks EXCEPT ![a][i].pc = "connecting",
                                          ![a][i].sess = "open"]
            /\ wsConn' = [wsConn EXCEPT ![a].session = i]
       ELSE /\ wsTasks' = [wsTasks EXCEPT ![a][i].pc = "done"]
            /\ UNCHANGED wsConn
    /\ UNCHANGED <<now, cacheVars, wsFrame, wsOutcome, wsCalls, wsOps, wsHist,
                   restVars, supabase_initialized, collector, lighter, hubVars>>

\* ws_connect returned: the connection is marked up, the ping task is made
\* and the three subscriptions are sent.  When stop closed the session under
\* a handshake that was answered already, ws_connect still returns, with a
\* socket that is closed.
WsConnected(a, i) ==
    /\ i \in 1..Len(wsTasks[a])
    /\ wsTasks[a][i].pc = "connecting"
    /\ ~wsTasks[a][i].cancelled
    /\ wsConn' = [wsConn EXCEPT ![a] = ws_connected(@, i, now)]
    /\ wsTasks' = [wsTasks EXCEPT ![a][i] =
                      [@ EXCEPT !.pc = "reading",
                                !.sock = IF wsTasks[a][i].sess = "open" THEN "open"
                                         ELSE "closed",
                                !.ping = "sleeping", !.ping_wake = now + PING_INTERVAL]]
    /\ wsHist' = [wsHist EXCEPT ![a].closed = FALSE, ![a].fails = 0]
    /\ UNCHANGED <<now, cacheVars, wsFrame, wsOutcome, wsCalls, wsOps, restVars,
                   supabase_initialized, collector, lighter, hubVars>>

\* ws_connect raised
WsConnectFails(a, i, maxFailures) ==
    LET r == ws_leave(wsConn[a], wsTasks[a], i, TRUE, now)
    IN  /\ i \in 1..Len(wsTasks[a])
        /\ wsTasks[a][i].pc = "connecting"
        /\ ~wsTasks[a][i].cancelled
        /\ wsConn[a].reconnect_count < maxFailures
        /\ wsConn' = [wsConn EXCEPT ![a] = r.conn]
        /\ wsTasks' = [wsTasks EXCEPT ![a] = r.tasks]
        /\ wsHist' = [wsHist EXCEPT ![a].fails = @ + 1]
        /\ UNCHANGED <<now, cacheVars, wsFrame, wsOutcome, wsCalls, wsOps,
                       restVars, supabase_initialized, collector, lighter, hubVars>>

\* ws_connect returned and the connection was marked up, but a subscription
\* could not be sent: send_json raises on a transport that is closing, the
\* except branch and the finally block run
WsSubscribeFails(a, i, maxFailures) ==
    LET opened == [wsTasks[a] EXCEPT ![i].sock = "open", ![i].ping = "sleeping",
                                     ![i].ping_wake = now + PING_INTERVAL]
        r == ws_leave(ws_connected(wsConn[a], i, now), opened, i, TRUE, now)
    IN  /\ i \in 1..Len(wsTasks[a])
        /\ wsTasks[a][i].pc = "connecting"
        /\ wsTasks[a][i].sess = "open"
        /\ ~wsTasks[a][i].cancelled
        /\ wsConn[a].reconnect_count < maxFailures
        /\ wsConn' = [wsConn EXCEPT ![a] = r.conn]
        /\ wsTasks' = [wsTasks EXCEPT ![a] = r.tasks]
        /\ wsHist' = [wsHist EXCEPT ![a].fails = @ + 1]
        /\ UNCHANGED <<now, cacheVars, wsFrame, wsOutcome, wsCalls, wsOps,
                       restVars, supabase_initialized, collector, lighter, hubVars>>

\* a read loop that does not await the callback: the next frame is read
\* while the callback of the frame before it waits for manager.broadcast, and
\* its own callback gets through first
WsText_NoAwait(a, i, b, data) ==
    /\ i \in 1..Len(wsTasks[a])
    /\ wsTasks[a][i].pc \in {"reading", "callback"}
    /\ wsTasks[a][i].sock = "open"
    /\ ~wsTasks[a][i].cancelled
    /\ BroadcastCall(b, data)
    /\ wsConn' = [wsConn EXCEPT ![a] = ws_text_received(@, now)]
    /\ IF active_connections = {} \/ wsTasks[a][i].pc = "callback"
       THEN /\ cache' = on_ws_message_cache(cache, data, now)
            /\ UNCHANGED wsTasks
       ELSE /\ wsTasks' = [wsTasks EXCEPT ![a][i] =
                              [@ EXCEPT !.pc = "callback", !.b = b, !.data = Some(data)]]
            /\ UNCHANGED cache
    /\ UNCHANGED <<now, cacheRet, lastSet, wsFrame, wsOutcome, wsCalls, wsOps, wsHist,
                   restVars, supabase_initialized, collector, lighter, active_connections, subPc, inbox>>

\* an on_ws_message that routes the frame to the cache first and forwards it
\* afterwards: a frame whose routing raises is never forwarded
WsText_RouteFirst(a, i, b, data) ==
    /\ i \in 1..Len(wsTasks[a])
    /\ wsTasks[a][i].pc = "reading"
    /\ wsTasks[a][i].sock = "open"
    /\ ~wsTasks[a][i].cancelled
    /\ bcast[b].pc = "idle"
    /\ LET raised == on_ws_message_raises(cache, data, now)
       IN  /\ cache' = on_ws_message_cache(cache, data, now)
           /\ wsConn' = [wsConn EXCEPT ![a] = ws_text_received(@, now)]
           /\ wsHist' = [wsHist EXCEPT ![a].raised = IF raised THEN @ + 1 ELSE @]
           /\ IF raised THEN bcast' = bcast /\ lock' = lock
                        ELSE BroadcastCall(b, data)
           /\ wsTasks' = [wsTasks EXCEPT ![a][i] =
                  [@ EXCEPT !.pc = IF raised \/ active_connections = {}
                                   THEN "reading" ELSE "callback",
                            !.b = IF raised \/ active_connections = {} THEN 0 ELSE b]]
    /\ UNCHANGED <<now, cacheRet, lastSet, wsFrame, wsOutcome, wsCalls, wsOps,
                   restVars, supabase_initialized, collector, lighter, active_connections, subPc, inbox>>

\* a text frame arrives: _notify_callbacks awaits on_ws_message, which awaits
\* manager.broadcast before it looks at the channel.  With nobody attached
\* broadcast returns at once and the cache write follows in the same step.
WsText(a, i, b, data) ==
    /\ i \in 1..Len(wsTasks[a])
    /\ wsTasks[a][i].pc = "reading"
    /\ wsTasks[a][i].sock = "open"
    /\ ~wsTasks[a][i].cancelled
    /\ BroadcastCall(b, data)
    /\ IF active_connections = {}
       THEN LET raised == on_ws_message_raises(cache, data, now)
                r == notify_callbacks(ws_text_received(wsConn[a], now), wsTasks[a], i,
                                      raised, now)
            IN  /\ cache' = on_ws_message_cache(cache, data, now)
                /\ wsConn' = [wsConn EXCEPT ![a] = r.conn]
                /\ wsTasks' = [wsTasks EXCEPT ![a] = r.tasks]
                /\ wsHist' = [wsHist EXCEPT ![a].raised = IF raised THEN @ + 1 ELSE @]
       ELSE /\ wsConn' = [wsConn EXCEPT ![a] = ws_text_received(@, now)]
            /\ wsTasks' = [wsTasks EXCEPT ![a][i] =
                              [@ EXCEPT !.pc = "callback", !.b = b, !.data = Some(data)]]
            /\ UNCHANGED <<cache, wsHist>>
    /\ UNCHANGED <<now, cacheRet, lastSet, wsFrame, wsOutcome, wsCalls, wsOps,
                   restVars, supabase_initialized, collector, lighter, active_connections, subPc, inbox>>

\* a text frame arrives that is dropped before the callback: json.loads
\* raises JSONDecodeError, or the value is not an object and data.get raises
\* (both are logged by the try around the dispatch)
WsMalformed(a, i, maxMalformed) ==
    /\ i \in 1..Len(wsTasks[a])
    /\ wsTasks[a][i].pc = "reading"
    /\ wsTasks[a][i].sock = "open"
    /\ ~wsTasks[a][i].cancelled
    /\ wsHist[a].malformed < maxMalformed
    /\ wsConn' = [wsConn EXCEPT ![a] = ws_text_received(@, now)]
    /\ wsHist' = [wsHist EXCEPT ![a].malformed = @ + 1]
    /\ UNCHANGED <<now, cacheVars, wsFrame, wsOutcome, wsCalls, wsTasks, wsOps,
                   restVars, supabase_initialized, collector, lighter, hubVars>>

\* manager.broadcast returned to on_ws_message: the cache write of the frame,
\* and the read loop takes the next message
WsCallbackResumes(a, i) ==
    /\ i \in 1..Len(wsTasks[a])
    /\ wsTasks[a][i].pc = "callback"
    /\ ~wsTasks[a][i].cancelled
    /\ bcast[wsTasks[a][i].b].pc = "returned"
    /\ LET data == wsTasks[a][i].data.val
           raised == on_ws_message_raises(cache, data, now)
           r == notify_callbacks(wsConn[a], wsTasks[a], i, raised, now)
       IN  /\ cache' = on_ws_message_cache(cache, data, now)
           /\ wsConn' = [wsConn EXCEPT ![a] = r.conn]
           /\ wsTasks' = [wsTasks EXCEPT ![a] = r.tasks]
           /\ wsHist' = [wsHist EXCEPT ![a].raised = IF raised THEN @ + 1 ELSE @]
    /\ UNCHANGED <<now, cacheRet, lastSet, wsFrame, wsOutcome, wsCalls, wsOps,
                   restVars, supabase_initialized, collector, lighter, hubVars>>

\* a PONG message arrives
WsPong(a, i) ==
    /\ i \in 1..Len(wsTasks[a])
    /\ wsTasks[a][i].pc = "reading"
    /\ wsTasks[a][i].sock = "open"
    /\ ~wsTasks[a][i].cancelled
    /\ wsConn[a].last_pong_time # now
    /\ wsConn' = [wsConn EXCEPT ![a] = handle_pong(@, now)]
    /\ UNCHANGED <<now, cacheVars, wsFrame, wsOutcome, wsCalls, wsTasks, wsOps, wsHist,
                   restVars, supabase_initialized, collector, lighter, hubVars>>

\* the read loop ends.  On an open socket: an ERROR or CLOSED message breaks
\* the loop (not raised), or the receive raises.  On a socket closed from this
\* side (by the ping task or by stop) the iteration ends, or it raises.
WsReadEnds(a, i, raised, maxFailures) ==
    LET r == ws_leave(wsConn[a], wsTasks[a], i, raised, now)
    IN  /\ i \in 1..Len(wsTasks[a])
        /\ wsTasks[a][i].pc = "reading"
        /\ ~wsTasks[a][i].cancelled
        /\ raised => wsConn[a].reconnect_count < maxFailures
        /\ wsConn' = [wsConn EXCEPT ![a] = r.conn]
        /\ wsTasks' = [wsTasks EXCEPT ![a] = r.tasks]
        /\ wsHist' = [wsHist EXCEPT ![a].fails = IF raised THEN @ + 1 ELSE @]
        /\ UNCHANGED <<now, cacheVars, wsFrame, wsOutcome, wsCalls, wsOps,
                       restVars, supabase_initialized, collector, lighter, hubVars>>

\* _ping_loop after its sleep: the socket is gone; or nothing was heard for
\* more than PONG_TIMEOUT and the socket is closed; or a ping is sent (ok) or
\* fails to be, and the loop goes round if the connection is up and running
PingWakes(a, i, ok) ==
    LET conn == wsConn[a]
        gone == conn.ws = 0 \/ wsTasks[a][conn.ws].sock # "open"
        late == ping_timed_out(conn, now)
    IN  /\ i \in 1..Len(wsTasks[a])
        /\ wsTasks[a][i].ping = "sleeping"
        /\ now >= wsTasks[a][i].ping_wake
        /\ (gone \/ late) => ok
        /\ wsConn' = [wsConn EXCEPT ![a].connected =
                         IF gone \/ late \/ ~ok THEN FALSE ELSE @]
        /\ wsTasks' = [wsTasks EXCEPT ![a] =
              IF gone THEN [@ EXCEPT ![i].ping = "done"]
              ELSE IF late THEN [CloseSocket(@, conn.ws) EXCEPT ![i].ping = "done"]
              ELSE IF ok /\ conn.running /\ conn.connected
                   THEN [@ EXCEPT ![i].ping_wake = now + PING_INTERVAL]
                   ELSE [@ EXCEPT ![i].ping = "done"]]
        /\ wsHist' = IF ~gone /\ late
                     THEN [wsHist EXCEPT ![a].closed = TRUE,
                                         ![a].count = conn.reconnect_count]
                     ELSE wsHist
        /\ UNCHANGED <<now, cacheVars, wsFrame, wsOutcome, wsCalls, wsOps, restVars,
                       supabase_initialized, collector, lighter, hubVars>>

\* a cancelled connect task runs: CancelledError is raised at its await and
\* no except branch takes it.  Inside the try (connecting, reading, in the
\* callback) the socket is closed by the `async with` and the finally block
\* runs; a task that sleeps or never ran is just over.  A broadcast it was
\* waiting for is abandoned and its lock released.
WsTaskCancelled(a, i) ==
    LET conn == wsConn[a]
        f == IF wsTasks[a][i].pc \in {"connecting", "reading", "callback"}
             THEN ws_connect_finally(conn, CloseSocket(wsTasks[a], i))
             ELSE [conn |-> conn, tasks |-> wsTasks[a]]
        b == wsTasks[a][i].b
    IN  /\ i \in 1..Len(wsTasks[a])
        /\ wsTasks[a][i].cancelled
        /\ wsTasks[a][i].pc # "done"
        /\ wsConn' = [wsConn EXCEPT ![a] = f.conn]
        /\ wsTasks' = [wsTasks EXCEPT ![a] =
                          [f.tasks EXCEPT ![i].pc = "done", ![i].b = 0, ![i].data = None]]
        /\ IF b # 0 /\ bcast[b].pc # "returned"
           THEN /\ bcast' = [bcast EXCEPT ![b] =
                                [@ EXCEPT !.pc = "returned", !.todo = {},
                                          !.disconnected = {}]]
                /\ lock' = IF lock = b THEN 0 ELSE lock
           ELSE UNCHANGED <<bcast, lock>>
        /\ UNCHANGED <<now, cacheVars, wsFrame, wsOutcome, wsCalls, wsOps, wsHist,
                       restVars, supabase_initialized, collector, lighter, active_connections, subPc, inbox>>

\* what follows `await conn.stop()`: nothing for LighterWebSocketClient.stop;
\* force_reconnect sets running, resets the retry state and makes a new task
ws_after_stop(conn, tasks, kind) ==
    IF kind = "force_reconnect"
    THEN [conn |-> [ws_reset_retry_state(conn) EXCEPT !.running = TRUE,
                                                     !.task = Len(tasks) + 1],
          tasks |-> Append(tasks, ConnectTask)]
    ELSE [conn |-> conn, tasks |-> tasks]

\* stop() from `if self._task` on: the task is cancelled and awaited.  A task
\* that is over does not suspend the caller, which goes on at once.
stop_task(conn, tasks, op) ==
    LET r == ws_after_stop(conn, tasks, op.kind)
    IN  IF conn.task = 0 \/ tasks[conn.task].pc = "done"
        THEN [conn |-> r.conn, tasks |-> r.tasks, op |-> [op EXCEPT !.pc = "returned"]]
        ELSE [conn |-> conn,
              tasks |-> [tasks EXCEPT ![conn.task].cancelled = TRUE],
              op |-> [op EXCEPT !.pc = "joining", !.target = conn.task]]

\* stop() from `if self._session and not self._session.closed` on: an open
\* session is closed, and the caller waits for it
stop_session(conn, tasks, op) ==
    IF SessionOpen(conn, tasks)
    THEN [conn |-> conn, tasks |-> CloseSession(tasks, conn.session),
          op |-> [op EXCEPT !.pc = "session"]]
    ELSE stop_task(conn, tasks, op)

\* stop() from `if self._ws` on: an open socket is closed, and the caller
\* waits for it; close() on a socket that is closed returns at once
stop_ws(conn, tasks, op) ==
    IF conn.ws # 0 /\ tasks[conn.ws].sock = "open"
    THEN [conn |-> conn, tasks |-> CloseSocket(tasks, conn.ws),
          op |-> [op EXCEPT !.pc = "ws"]]
    ELSE stop_session(conn, tasks, op)

\* stop() from its start: the flags are cleared, the ping task is cancelled
\* and awaited if there is one, which suspends the caller unless that task is
\* over
stop_begin(conn0, tasks, op) ==
    LET conn == [conn0 EXCEPT !.running = FALSE, !.connected = FALSE]
    IN  IF conn.ping_task # 0 /\ tasks[conn.ping_task].ping = "sleeping"
        THEN [conn |-> conn, tasks |-> CancelPing(tasks, conn.ping_task),
              op |-> [op EXCEPT !.pc = "ping"]]
        ELSE stop_ws([conn EXCEPT !.ping_task = 0], tasks, op)

\* stop() goes on after an await
stop_resume(conn, tasks, op) ==
    IF op.pc = "ping" THEN stop_ws([conn EXCEPT !.ping_task = 0], tasks, op)
    ELSE IF op.pc = "ws" THEN stop_session(conn, tasks, op)
    ELSE stop_task(conn, tasks, op)

\* stop() is called and runs to its first await that suspends.  kind tells
\* whether LighterWebSocketClient.stop or force_reconnect called it; no
\* force_reconnect starts once stop was called.
WsStopBegin(c, kind, a, maxTasks) ==
    LET r == stop_begin(wsConn[a], wsTasks[a],
                        [pc |-> "idle", kind |-> kind, acc |-> a, target |-> 0])
    IN  /\ wsOps[c].pc = "idle"
        /\ \A d \in WsCallers : d < c => wsOps[d].pc # "idle"
        /\ \A d \in WsCallers : wsOps[d].kind # "stop"
        /\ wsConn[a].task # 0
        /\ Len(r.tasks) <= maxTasks
        /\ wsConn' = [wsConn EXCEPT ![a] = r.conn]
        /\ wsTasks' = [wsTasks EXCEPT ![a] = r.tasks]
        /\ wsOps' = [wsOps EXCEPT ![c] = r.op]
        /\ UNCHANGED <<now, cacheVars, wsFrame, wsOutcome, wsCalls, wsHist, restVars,
                       supabase_initialized, collector, lighter, hubVars>>

\* stop() goes on after the await of the ping task, of ws.close() or of
\* session.close(), to its next await that suspends
WsStopClose(c, maxTasks) ==
    LET a == wsOps[c].acc
        r == stop_resume(wsConn[a], wsTasks[a], wsOps[c])
    IN  /\ wsOps[c].pc \in {"ping", "ws", "session"}
        /\ Len(r.tasks) <= maxTasks
        /\ wsConn' = [wsConn EXCEPT ![a] = r.conn]
        /\ wsTasks' = [wsTasks EXCEPT ![a] = r.tasks]
        /\ wsOps' = [wsOps EXCEPT ![c] = r.op]
        /\ UNCHANGED <<now, cacheVars, wsFrame, wsOutcome, wsCalls, wsHist, restVars,
                       supabase_initialized, collector, lighter, hubVars>>

\* the awaited task is over: stop returns to its caller
WsStopJoined(c, maxTasks) ==
    LET a == wsOps[c].acc
        r == ws_after_stop(wsConn[a], wsTasks[a], wsOps[c].kind)
    IN  /\ wsOps[c].pc = "joining"
        /\ wsTasks[a][wsOps[c].target].pc = "done"
        /\ Len(r.tasks) <= maxTasks
        /\ wsConn' = [wsConn EXCEPT ![a] = r.conn]
        /\ wsTasks' = [wsTasks EXCEPT ![a] = r.tasks]
        /\ wsOps' = [wsOps EXCEPT ![c].pc = "returned"]
        /\ UNCHANGED <<now, cacheVars, wsFrame, wsOutcome, wsCalls, wsHist, restVars,
                       supabase_initialized, collector, lighter, hubVars>>

\* time passes to the next timer, when no timer is due
WsTick(accounts, ticks) ==
    /\ now < StartTime + PING_INTERVAL * ticks
    /\ \A a \in accounts : \A i \in 1..Len(wsTasks[a]) :
          /\ wsTasks[a][i].ping = "sleeping" => now < wsTasks[a][i].ping_wake
          /\ wsTasks[a][i].pc = "sleeping" => now < wsTasks[a][i].wake
          /\ wsTasks[a][i].pc \notin {"created", "connecting"}
          /\ ~(wsTasks[a][i].cancelled /\ wsTasks[a][i].pc # "done")
    /\ now' = now + PING_INTERVAL
    /\ UNCHANGED <<cacheVars, wsVars, restVars, supabase_initialized, collector, lighter, hubVars>>

(***************************************************************************)
(* SpecAccounts: two accounts, each with its poller and its upstream       *)
(* connection, and one downstream websocket.  Time stands still: a       *)
(* connection that failed stays in its retry sleep.                      *)
(***************************************************************************)
\* the frames account a's connection may deliver
AccountFrames(a) == { ListFrame("account_all_orders", a, <<"o1">>) }

\* the upstream REST calls SpecAccounts follows for each account
AccountsRequests == [a \in WsAccounts |->
                        IF a = 42 THEN AccountsMaxRequests ELSE AccountsFewRequests]

InitAccounts ==
    /\ now = StartTime
    /\ cache = EmptyDict
    /\ cacheRet = NoRet
    /\ lastSet = EmptyDict
    /\ wsFrame = None
    /\ wsOutcome = "none"
    /\ wsCalls = 0
    /\ supabase_initialized = FALSE
    /\ rest = [a \in WsAccounts |-> AccountRestConnection]
    /\ pollPc = [a \in WsAccounts |-> "idle"]
    /\ orderTasks = [a \in WsAccounts |-> <<>>]
    /\ cached_orders = [a \in WsAccounts |-> <<>>]
    /\ restErrors = 0
    /\ calls = [a \in WsAccounts |-> 0]
    /\ hist = [a \in WsAccounts |-> [fails |-> 0]]
    /\ lastReq = [poll |-> [kind |-> "none"], orders |-> [kind |-> "none"]]
    /\ resetHist = [a \in WsAccounts |->
                        [just |-> FALSE, fresh |-> FALSE, down |-> FALSE]]
    /\ active_connections = {}
    /\ lock = 0
    /\ subPc = [w \in Subscribers |-> "new"]
    /\ inbox = [w \in Subscribers |-> <<>>]
    /\ bcast = [b \in Broadcasts |-> NoBroadcast]
    /\ wsConn = [a \in WsAccounts |-> AccountWebSocketConnection]
    /\ wsTasks = [a \in WsAccounts |-> <<>>]
    /\ wsOps = [c \in WsCallers |-> NoCall]
    /\ lighter = LighterClient
    /\ collector = ErrorCollector
    /\ wsHist = [a \in WsAccounts |-> NoWsHist]

NextAccounts ==
    \/ \E a \in WsAccounts : PollBegin(a, AccountsRequests[a])
    \/ \E a \in WsAccounts :
          /\ rest[a].total_requests < AccountsFewRequests
          /\ PollSucceeds(a, AccountsFewRequests)
    \/ \E a \in WsAccounts : PollFails(a)
    \/ \E a \in WsAccounts : WsStart(a)
    \/ \E a \in WsAccounts : WsLoopTop(a, 1)
    \/ \E a \in WsAccounts : WsConnected(a, 1)
    \/ \E a \in WsAccounts : WsConnectFails(a, 1, AccountsFewRequests)
    \/ \E a \in WsAccounts : \E data \in AccountFrames(a) : WsText(a, 1, 1, data)
    \/ \E a \in WsAccounts : WsCallbackResumes(a, 1)
    \/ \E a \in WsAccounts, raised \in BOOLEAN :
          WsReadEnds(a, 1, raised, AccountsFewRequests)
    \/ BroadcastSend(1, 1, TRUE)
    \/ SubAttach(1)
    \/ SubInitialData(1, TRUE)

(***************************************************************************)
(* SpecWs: the upstream connection of one account over some minutes, with  *)
(* its heartbeat; nobody is attached downstream, so a frame is broadcast    *)
(* and cached in the step that reads it.                                    *)
(***************************************************************************)
InitWs ==
    /\ InitCommon
    /\ supabase_initialized = FALSE

NextWs ==
    \/ WsStart(42)
    \/ WsLoopTop(42, 1)
    \/ WsConnected(42, 1)
    \/ WsConnectFails(42, 1, WsMaxFailures)
    \/ \E b \in Broadcasts : \E data \in AccountFrames(42) : WsText(42, 1, b, data)
    \/ WsPong(42, 1)
    \/ \E raised \in BOOLEAN : WsReadEnds(42, 1, raised, WsMaxFailures)
    \/ \E ok \in BOOLEAN : PingWakes(42, 1, ok)
    \/ WsTick({42}, WsTicks)

(***************************************************************************)
(* SpecFeed: the read loop of one account feeding the hub while downstream *)
(* websockets come and go: on_ws_message broadcasts every frame and then   *)
(* writes the cache.                                                        *)
(***************************************************************************)
InitFeed ==
    /\ InitCommon
    /\ supabase_initialized = FALSE

NextFeed ==
    \/ WsStart(42)
    \/ WsLoopTop(42, 1)
    \/ WsConnected(42, 1)
    \/ \E b \in Broadcasts : \E data \in AccountFrames(42) : WsText(42, 1, b, data)
    \/ WsCallbackResumes(42, 1)
    \/ \E b \in Broadcasts, w \in Subscribers, ok \in BOOLEAN : BroadcastSend(b, w, ok)
    \/ \E b \in Broadcasts, w \in Subscribers : BroadcastDetach(b, w)
    \/ \E w \in Subscribers : SubAttach(w)
    \/ \E w \in Subscribers, ok \in BOOLEAN : SubInitialData(w, ok)
    \/ \E w \in Subscribers : ClientCloses(w)
    \/ \E w \in Subscribers : SubDetach(w)

(***************************************************************************)
(* SpecWsTasks: the connect tasks of one account under calls of stop and   *)
(* force_reconnect that may overlap.  Time stands still and nobody is       *)
(* attached downstream.                                                     *)
(***************************************************************************)
NextWsTasks ==
    \/ WsStart(42)
    \/ \E i \in 1..MaxTasks : WsLoopTop(42, i)
    \/ \E i \in 1..MaxTasks : WsConnected(42, i)
    \/ \E i \in 1..MaxTasks : WsConnectFails(42, i, WsMaxFailures)
    \/ \E i \in 1..MaxTasks, b \in Broadcasts :
          \E data \in AccountFrames(42) : WsText(42, i, b, data)
    \/ \E i \in 1..MaxTasks, raised \in BOOLEAN : WsReadEnds(42, i, raised, WsMaxFailures)
    \/ \E i \in 1..MaxTasks : WsTaskCancelled(42, i)
    \/ \E c \in WsCallers, kind \in {"stop", "force_reconnect"} : WsStopBegin(c, kind, 42, MaxTasks)
    \/ \E c \in WsCallers : WsStopClose(c, MaxTasks)
    \/ \E c \in WsCallers : WsStopJoined(c, MaxTasks)

(***************************************************************************)
(* SpecArrival: the read loop of one account reading frames that differ,   *)
(* of two channels, while downstream websockets attach and their writes    *)
(* succeed or fail.  Time stands still.                                    *)
(***************************************************************************)
ArrivalFrames ==
    { ListFrame("account_all_orders", 42, <<"o1">>),
      ListFrame("account_all_orders", 42, <<"o2">>),
      ListFrame("account_all_positions", 42, <<"p1">>) }

NextArrival ==
    \/ WsStart(42)
    \/ WsLoopTop(42, 1)
    \/ WsConnected(42, 1)
    \/ \E b \in Broadcasts : \E data \in ArrivalFrames : WsText(42, 1, b, data)
    \/ WsCallbackResumes(42, 1)
    \/ \E b \in Broadcasts, w \in Subscribers, ok \in BOOLEAN : BroadcastSend(b, w, ok)
    \/ \E b \in Broadcasts, w \in Subscribers : BroadcastDetach(b, w)
    \/ \E w \in Subscribers : SubAttach(w)
    \/ \E w \in Subscribers, ok \in BOOLEAN : SubInitialData(w, ok)

(***************************************************************************)
(* SpecBadFrames: the read loop of one account fed frames that are not     *)
(* JSON objects and frames whose merge raises, next to good ones, with one *)
(* downstream websocket.  Time stands still.                               *)
(***************************************************************************)
\* account 42 is configured, so the merge of its trades raises
BadFrames ==
    { ListFrame("account_all_orders", 42, <<"o1">>),
      TradesFrame(TRUE, 42, OneMarket(1, <<tA>>), NoVolumes) }

NextBadFrames ==
    \/ WsStart(42)
    \/ WsLoopTop(42, 1)
    \/ WsConnected(42, 1)
    \/ \E b \in Broadcasts : \E data \in BadFrames : WsText(42, 1, b, data)
    \/ WsMalformed(42, 1, MaxMalformed)
    \/ WsCallbackResumes(42, 1)
    \/ \E b \in Broadcasts, ok \in BOOLEAN : BroadcastSend(b, 1, ok)
    \/ \E b \in Broadcasts : BroadcastDetach(b, 1)
    \/ SubAttach(1)
    \/ SubInitialData(1, TRUE)

(***************************************************************************)
(* SpecRetry: one connector whose dials, subscriptions and reads fail time *)
(* after time, long enough to get into phase 2 and to redial from there.   *)
(***************************************************************************)
NextRetry ==
    \/ WsStart(42)
    \/ WsLoopTop(42, 1)
    \/ WsConnected(42, 1)
    \/ WsConnectFails(42, 1, RetryMaxFailures)
    \/ WsSubscribeFails(42, 1, RetryMaxFailures)
    \/ \E raised \in BOOLEAN : WsReadEnds(42, 1, raised, RetryMaxFailures)
    \/ WsTick({42}, RetryTicks)

(***************************************************************************)
(* SpecShutdown: startup, the polling task and the connector of one        *)
(* account, and the shutdown handler: ws_client.stop(), then               *)
(* lighter_client.close().  Time stands still; the sleep of the poller     *)
(* ends when it likes.                                                     *)
(***************************************************************************)
\* ws_client.stop() has returned
StopReturnedFor(a) ==
    \E c \in WsCallers : /\ wsOps[c].kind = "stop" /\ wsOps[c].acc = a
                          /\ wsOps[c].pc = "returned"

\* startup: `asyncio.create_task(lighter_client.start_polling())`; the handle
\* is dropped, _poll_task stays None
StartPolling ==
    /\ lighter.poller = "none"
    /\ lighter' = [lighter EXCEPT !.poller = "created"]
    /\ UNCHANGED <<now, cacheVars, wsVars, supabase_initialized, collector, restVars, hubVars>>

\* the polling task runs for the first time (running is set) or its sleep is
\* over: `while self.running`, and fetch_all_accounts runs fetch_account_data
\* of the account up to its first suspension
PollerRuns(a, maxRequests) ==
    LET running == lighter.poller = "created" \/ lighter.running
        r == fetch_account_data_begin(rest[a], cache, a, now)
    IN  /\ lighter.poller \in {"created", "sleeping"}
        /\ ~lighter.cancelled
        /\ pollPc[a] = "idle"
        /\ IF running
           THEN /\ r.kind = "call" => calls[a] < maxRequests
                /\ r.kind = "call" => lighter.api_clients[a] = "open"
                /\ lighter' = [lighter EXCEPT !.running = TRUE, !.poller = "fetching"]
                /\ pollPc' = [pollPc EXCEPT ![a] = IF r.kind = "call" THEN "awaiting"
                                                                      ELSE "idle"]
                /\ calls' = [calls EXCEPT ![a] = IF r.kind = "call" THEN @ + 1 ELSE @]
                /\ cache' = r.cache
                /\ lastReq' = [lastReq EXCEPT !.poll =
                                  [acc |-> a, kind |-> r.kind, ret |-> r.ret]]
                /\ resetHist' = [resetHist EXCEPT ![a].fresh = FALSE]
           ELSE /\ lighter' = [lighter EXCEPT !.poller = "done"]
                /\ UNCHANGED <<pollPc, calls, cache, lastReq, resetHist>>
        /\ UNCHANGED <<now, cacheRet, lastSet, wsVars, supabase_initialized, collector, hubVars,
                       rest, orderTasks, cached_orders, restErrors, hist>>

\* the gather of fetch_all_accounts returned: `await asyncio.sleep(poll_interval)`
PollerSleeps ==
    /\ lighter.poller = "fetching"
    /\ ~lighter.cancelled
    /\ \A a \in RestAccounts : pollPc[a] = "idle"
    /\ lighter' = [lighter EXCEPT !.poller = "sleeping"]
    /\ UNCHANGED <<now, cacheVars, wsVars, supabase_initialized, collector, restVars, hubVars>>

\* close() from `self.api_clients.values()` on: the first client that is open
\* is closed, which suspends close(); with none left the dicts are cleared
\* and close() returns
close_clients(l) ==
    IF \E a \in DOMAIN l.api_clients : l.api_clients[a] = "open"
    THEN LET a == CHOOSE a \in DOMAIN l.api_clients : l.api_clients[a] = "open"
         IN  [l EXCEPT !.api_clients[a] = "closed", !.close = "clients"]
    ELSE [l EXCEPT !.close = "returned"]

\* close() from the loop over _http_sessions on: every open session is closed
\* and the dict cleared
close_sessions(l) == close_clients([l EXCEPT !.http_sessions = {}])

\* stop_polling and close() up to the first await that suspends: running is
\* cleared, and the task is cancelled and awaited if _poll_task holds one
close_begin(l) ==
    LET l1 == [l EXCEPT !.running = FALSE]
    IN  IF l1.poll_task # "None" /\ l1.poller # "done"
        THEN [l1 EXCEPT !.cancelled = TRUE, !.close = "joining"]
        ELSE close_sessions(l1)

\* the shutdown handler after `await ws_client.stop()`: lighter_client.close()
CloseBegin ==
    /\ lighter.close = "idle"
    /\ StopReturnedFor(42)
    /\ lighter' = close_begin(lighter)
    /\ UNCHANGED <<now, cacheVars, wsVars, supabase_initialized, collector, restVars, hubVars>>

\* close() goes on after an await
CloseResumes ==
    /\ \/ lighter.close = "joining" /\ lighter.poller = "done"
          /\ lighter' = close_sessions(lighter)
       \/ lighter.close = "clients"
          /\ lighter' = close_clients(lighter)
    /\ UNCHANGED <<now, cacheVars, wsVars, supabase_initialized, collector, restVars, hubVars>>

NextShutdown ==
    \/ StartPolling
    \/ PollerRuns(42, MaxRequests)
    \/ PollSucceeds(42, MaxRequests)
    \/ PollFails(42)
    \/ PollerSleeps
    \/ lighter.poller # "none" /\ WsStart(42)
    \/ WsLoopTop(42, 1)
    \/ WsConnected(42, 1)
    \/ WsConnectFails(42, 1, WsMaxFailures)
    \/ \E raised \in BOOLEAN : WsReadEnds(42, 1, raised, WsMaxFailures)
    \/ WsTaskCancelled(42, 1)
    \/ lighter.poller \notin {"none", "created"} /\ WsStopBegin(1, "stop", 42, 1)
    \/ WsStopClose(1, 1)
    \/ WsStopJoined(1, 1)
    \/ CloseBegin
    \/ CloseResumes

(***************************************************************************)
(* The specifications.                                                     *)
(***************************************************************************)
vars == <<now, cache, cacheRet, lastSet, wsFrame, wsOutcome, wsCalls,
          supabase_initialized, collector, lighter, rest, pollPc, orderTasks, cached_orders, restErrors,
          calls, hist, lastReq, resetHist,
          active_connections, lock, subPc, inbox, bcast,
          wsConn, wsTasks, wsOps, wsHist>>

SpecCache == InitCache /\ [][NextCache]_vars

SpecTrades == InitTrades /\ [][NextTrades]_vars

SpecRest == InitRest /\ [][NextRest]_vars

SpecRestOrders == InitRest /\ [][NextRestOrders]_vars

SpecHub == InitHub /\ [][NextHub]_vars

SpecAccounts == InitAccounts /\ [][NextAccounts]_vars

SpecWs == InitWs /\ [][NextWs]_vars

SpecFeed == InitFeed /\ [][NextFeed]_vars

SpecWsTasks == InitWs /\ [][NextWsTasks]_vars

SpecArrival == InitFeed /\ [][NextArrival]_vars

SpecBadFrames == InitFeed /\ [][NextBadFrames]_vars

SpecShutdown == InitRest /\ [][NextShutdown]_vars

SpecRetry == InitWs /\ [][NextRetry]_vars

(***************************************************************************)
(* Claims about the cache (SpecCache).                                     *)
(***************************************************************************)

\* C3: for every set(k, v, ttl) with ttl >= 0, a get(k) later than
\* insert_time + ttl (no set(k) in between) returns absent and removes the
\* entry, so that get_stats().total_entries no longer counts it; a get(k) no
\* later than insert_time + ttl returns the value of the most recent set(k).
C3_GetHonoursTtl ==
    (cacheRet.op = "get" /\ cacheRet.key \in DOMAIN lastSet
        /\ lastSet[cacheRet.key].ttl >= 0)
    => LET s == lastSet[cacheRet.key]
       IN  /\ cacheRet.at > s.at + s.ttl
                => /\ cacheRet.ret = None
                   /\ cacheRet.key \notin DOMAIN cache
                           /\ get_stats(cache, cacheRet.at).total_entries
                        = Cardinality((DOMAIN cache) \ {cacheRet.key})
           /\ cacheRet.at <= s.at + s.ttl => cacheRet.ret = Some(s.data)

\* C4: get_all returns exactly the entries that are not expired at the time
\* of the call, each with its data, age and ttl, and when it returns no
\* expired entry is left in the cache (the others are all still there).
C4_SnapshotExact ==
    cacheRet.op = "get_all"
    => LET b == cacheRet.before
           t == cacheRet.at
           live == {k \in DOMAIN b : t - b[k].timestamp <= b[k].ttl}
       IN  /\ DOMAIN cacheRet.ret = live
           /\ \A k \in live :
                 /\ cacheRet.ret[k].data = b[k].data
                 /\ cacheRet.ret[k].age = t - b[k].timestamp
                 /\ cacheRet.ret[k].ttl = b[k].ttl
           /\ DOMAIN cache = live
           /\ \A k \in live : cache[k] = b[k]

\* a get_all that met one expired and one live entry
C4_Witness ==
    /\ cacheRet.op = "get_all"
    /\ \E k \in DOMAIN cacheRet.before : IsExpired(cacheRet.before[k], cacheRet.at)
    /\ \E k \in DOMAIN cacheRet.before : ~IsExpired(cacheRet.before[k], cacheRet.at)

(***************************************************************************)
(* Claims about the trade merge (SpecTrades).                              *)
(***************************************************************************)
\* the buckets of the cache: <<key, market>> pairs
Buckets == {km \in (DOMAIN cache) \X Markets : km[2] \in DOMAIN cache[km[1]].data.trades}
BucketOf(km) == cache[km[1]].data.trades[km[2]]

\* the elements of lst at the indices idx, in list order
SubSeqAt(lst, idx) ==
    [n \in 1..Cardinality(idx) |->
        lst[CHOOSE i \in idx : Cardinality({j \in idx : j <= i}) = n]]

\* the trades of incoming that carry an identity nobody carries before them,
\* neither in the bucket nor earlier in incoming
FreshTrades(bucket, incoming) ==
    SubSeqAt(incoming,
        {i \in 1..Len(incoming) :
            /\ TradeKey(incoming[i]) # 0
            /\ \A j \in 1..Len(bucket) : TradeKey(bucket[j]) # TradeKey(incoming[i])
            /\ \A j \in 1..(i - 1) : TradeKey(incoming[j]) # TradeKey(incoming[i])})

\* the last call of on_ws_message merged: its frame, its key, the buckets it found
MergedFrame == Frames[wsFrame.index]
MergedKey == TradesKey(MergedFrame.suffix.id)
MergedBefore ==
    IF MergedKey \in DOMAIN wsFrame.before
          /\ wsFrame.at - wsFrame.before[MergedKey].timestamp <= 3600
    THEN wsFrame.before[MergedKey].data.trades
    ELSE EmptyDict
MergedMarkets ==
    IF MergedFrame.trades.isDict
    THEN {m \in DOMAIN MergedFrame.trades.items : MergedFrame.trades.items[m].isList}
    ELSE {}

\* C1: no bucket trades[market_id] of a ws_trades entry holds two entries with
\* the same identity key (the first available of id, trade_id, timestamp).
C1_NoDuplicateIdentity ==
    \A km \in Buckets :
        \A i, j \in 1..Len(BucketOf(km)) :
            (i # j /\ TradeKey(BucketOf(km)[i]) # 0)
            => TradeKey(BucketOf(km)[i]) # TradeKey(BucketOf(km)[j])

\* C2: after every merge every bucket holds at most MAX_TRADES_PER_MARKET
\* trades, and a bucket that was cut kept the last MAX_TRADES_PER_MARKET of the
\* list it was cut from (the old bucket followed by the new trades, or the
\* incoming list of a market not cached before): the oldest are dropped.
C2_BucketBounded ==
    /\ \A km \in Buckets : Len(BucketOf(km)) <= MAX_TRADES_PER_MARKET
    /\ wsOutcome = "merged"
       => \A m \in MergedMarkets :
            LET incoming == MergedFrame.trades.items[m].items
                uncut == IF m \in DOMAIN MergedBefore
                         THEN MergedBefore[m] \o FreshTrades(MergedBefore[m], incoming)
                         ELSE incoming
                kept == cache[MergedKey].data.trades[m]
            IN  /\ Len(kept) = IF Len(uncut) > MAX_TRADES_PER_MARKET
                               THEN MAX_TRADES_PER_MARKET ELSE Len(uncut)
                /\ \A i \in 1..Len(kept) :
                      kept[i] = uncut[Len(uncut) - Len(kept) + i]

\* a merge that cut a cached, non-empty bucket
C2_Witness ==
    /\ wsOutcome = "merged"
    /\ \E m \in MergedMarkets :
          /\ m \in DOMAIN MergedBefore
          /\ Len(MergedBefore[m]) > 0
          /\ Len(MergedBefore[m])
               + Len(FreshTrades(MergedBefore[m], MergedFrame.trades.items[m].items))
                  > MAX_TRADES_PER_MARKET
          /\ Len(cache[MergedKey].data.trades[m]) = MAX_TRADES_PER_MARKET


(***************************************************************************)
(* Claims about the REST connector (SpecRest, SpecRestOrders).             *)
(***************************************************************************)
\* the backoff window: connected = false and now - last_failure less than
\* 60 s in phase 1, 300 s in phase 2
InBackoff(conn, t) ==
    /\ ~conn.connected
    /\ t - conn.last_failed_request < (IF conn.retry_phase = 1 THEN 60 ELSE 300)

\* what the cache holds for the account at time t: its data, unless expired
CachedValue(c, a, t) ==
    IF /\ AccountKey(a) \in DOMAIN c
       /\ t - c[AccountKey(a)].timestamp <= c[AccountKey(a)].ttl
    THEN Some(c[AccountKey(a)].data)
    ELSE None

\* this step is a poll tick, an order fetch, of account a taking its decision
PollTick(a) == lastReq'.poll # lastReq.poll /\ lastReq'.poll.acc = a
OrderTick(a) == lastReq'.orders # lastReq.orders /\ lastReq'.orders.acc = a

\* C5: under any sequence of request successes and failures, retry_phase is 2
\* if and only if the connector has taken at least 3 + 5 = 8 failures without
\* an intervening success.
C5_Phase2IffEightFailures ==
    \A a \in RestAccounts : rest[a].retry_phase = 2 <=> hist[a].fails >= 3 + 5

\* C6: while connected = false and now - last_failure < retry_interval(phase),
\* no step starts an upstream call for the account: a poll tick and an order
\* fetch both decide to skip, and the poll returns what the cache holds.
C6_BackoffRespected ==
    [][\A a \in RestAccounts :
          InBackoff(rest[a], now)
          => /\ calls'[a] = calls[a]
             /\ fetch_account_data_begin(rest[a], cache, a, now).kind = "skip"
             /\ fetch_account_data_begin(rest[a], cache, a, now).ret
                    = CachedValue(cache, a, now)
             /\ fetch_active_orders_begin(rest[a], cached_orders[a], now).kind = "skip"
             /\ PollTick(a) => (/\ lastReq'.poll.kind = "skip"
                                /\ lastReq'.poll.ret = CachedValue(cache, a, now))
             /\ OrderTick(a) => lastReq'.orders.kind = "skip"]_vars

\* in backoff, the last poll tick skipped and returned the cached account data,
\* and the last order fetch skipped too
C6_Witness ==
    /\ InBackoff(rest[42], now)
    /\ lastReq.poll.kind = "skip"
    /\ lastReq.poll.ret # None
    /\ lastReq.poll.ret = CachedValue(cache, 42, now)
    /\ lastReq.orders.kind = "skip"

\* C7: after exactly three consecutive failures from the OK state the
\* connector has connected = false and retry_phase = 1; a poll tick during the
\* following 60 s skips without an upstream call; a poll tick once the 60 s
\* have elapsed issues an upstream call.
C7_ThreeFailures ==
    /\ [](\A a \in RestAccounts :
            hist[a].fails = 3 => ~rest[a].connected /\ rest[a].retry_phase = 1)
    /\ [][\A a \in RestAccounts :
            (hist[a].fails = 3 /\ pollPc[a] = "idle")
            => IF now - rest[a].last_failed_request < 60
               THEN /\ calls'[a] = calls[a]
                    /\ fetch_account_data_begin(rest[a], cache, a, now).kind = "skip"
                    /\ PollTick(a) => lastReq'.poll.kind = "skip"
               ELSE /\ fetch_account_data_begin(rest[a], cache, a, now).kind = "call"
                    /\ PollTick(a) => (/\ lastReq'.poll.kind = "call"
                                       /\ calls'[a] = calls[a] + 1)]_vars

\* three failures, 60 s or more went by, and the poll tick issued its call
C7_Witness ==
    /\ hist[42].fails = 3
    /\ ~rest[42].connected
    /\ now - rest[42].last_failed_request >= 60
    /\ lastReq.poll.kind = "call"
    /\ pollPc[42] = "awaiting"

\* C8: in every reachable state, under any interleaving of record_success,
\* record_failure (those of parallel per-market order fetches included) and
\* force_reset, connected = false implies consecutive_failures >= 3.
C8_DisconnectedAfterThree ==
    \A a \in RestAccounts : ~rest[a].connected => rest[a].consecutive_failures >= 3

\* disconnected by the failures of requests that were in flight (the two order
\* fetches of a gather among them) when force_reconnect ran, after a success
C8_Witness ==
    /\ ~rest[42].connected
    /\ rest[42].successful_requests > 0
    /\ resetHist[42].fresh
    /\ Len(orderTasks[42]) = 2
    /\ \A i \in 1..2 : orderTasks[42][i].st = "done" /\ orderTasks[42][i].result = <<>>

\* C9: after force_reset the connector has connected = true,
\* consecutive_failures = 0, retry_phase = 1 and phase_attempts = 0 and
\* should_skip_request() is false; force_reset leaves the request totals and
\* the last success and failure timestamps as they were; a poll tick that
\* comes next (no request of the account ended in between) issues an
\* upstream call.
C9_ForceReset ==
    /\ [](\A a \in RestAccounts :
            resetHist[a].just
            => /\ rest[a].connected
               /\ rest[a].consecutive_failures = 0
               /\ rest[a].retry_phase = 1
               /\ rest[a].phase_attempts = 0
               /\ ~should_skip_request(rest[a], now)
               /\ fetch_account_data_begin(rest[a], cache, a, now).kind = "call")
    /\ [][\A a \in RestAccounts :
            /\ resetHist'[a].just
               => /\ rest'[a].total_requests = rest[a].total_requests
                  /\ rest'[a].successful_requests = rest[a].successful_requests
                  /\ rest'[a].failed_requests = rest[a].failed_requests
                  /\ rest'[a].last_successful_request = rest[a].last_successful_request
                  /\ rest'[a].last_failed_request = rest[a].last_failed_request
            /\ (resetHist[a].just /\ resetHist[a].fresh /\ ~resetHist'[a].fresh)
               => (calls'[a] = calls[a] + 1 /\ lastReq'.poll.kind = "call")]_vars

\* force_reconnect found the connector disconnected, less than 60 s after its
\* last failure, and the poll tick that followed issued its call
C9_Witness ==
    /\ resetHist[42].just
    /\ resetHist[42].down
    /\ ~resetHist[42].fresh
    /\ now - rest[42].last_failed_request < 60
    /\ rest[42].failed_requests >= 3
    /\ lastReq.poll.kind = "call"
    /\ pollPc[42] = "awaiting"


(***************************************************************************)
(* Claims about the broadcast hub (SpecHub).                               *)
(***************************************************************************)
\* the frames broadcast b wrote to the websocket w
FramesBy(b, w) == SelectSeq(inbox[w], LAMBDA m : m.by = b)

\* C10: after broadcast(f) returns, every subscriber attached for the whole
\* call whose write did not fail has received exactly one frame, the
\* serialization of f; no subscriber receives f twice or another frame.
C10_FanOut ==
    \A b \in Broadcasts :
        /\ bcast[b].pc = "returned"
           => \A w \in (bcast[b].start \cap bcast[b].end) \ bcast[b].failed :
                  /\ Len(FramesBy(b, w)) = 1
                  /\ FramesBy(b, w)[1].frame = json_dumps(bcast[b].data)
        /\ \A w \in Subscribers :
              /\ Len(FramesBy(b, w)) <= 1
              /\ \A i \in 1..Len(FramesBy(b, w)) :
                    FramesBy(b, w)[i].frame = json_dumps(bcast[b].data)

\* a broadcast returned that found two subscribers: the write to one failed,
\* the other stayed and has its frame
C10_Witness ==
    \E b \in Broadcasts :
        /\ bcast[b].pc = "returned"
        /\ Cardinality(bcast[b].start) = 2
        /\ bcast[b].failed # {}
        /\ \E w \in (bcast[b].start \cap bcast[b].end) \ bcast[b].failed :
              Len(FramesBy(b, w)) = 1

\* the websockets a step takes out of the set
Removed == active_connections \ active_connections'

\* C11: the subscribers a broadcast detaches are exactly those whose write
\* failed, and it detaches them after its loop: a write that fails leaves the
\* set as it is and marks that subscriber only, a write that succeeds hands
\* the frame over and marks nobody, every later discard takes one marked
\* subscriber out (count() goes down by one for each that is still in the
\* set), and when broadcast has returned none of the failed is attached.
C11_FailedOnlyDetached ==
    /\ [](\A b \in Broadcasts :
             /\ bcast[b].disconnected \subseteq bcast[b].failed
             /\ bcast[b].pc = "sending" => bcast[b].disconnected = bcast[b].failed
             /\ bcast[b].pc = "returned" =>
                   /\ bcast[b].failed \cap bcast[b].end = {}
                   /\ bcast[b].disconnected = {})
    /\ [][\A b \in Broadcasts :
             bcast'[b] # bcast[b] =>
                /\ active_connections' \subseteq active_connections
                /\ Removed \subseteq bcast[b].failed
                /\ Removed = (bcast[b].disconnected \ bcast'[b].disconnected)
                                 \cap active_connections
                /\ Cardinality(active_connections') =
                      Cardinality(active_connections) - Cardinality(Removed)
                /\ Removed # {} => bcast[b].pc = "detaching"
                /\ bcast[b].pc = "sending" =>
                      \E w \in bcast[b].todo :
                         /\ bcast'[b].todo = bcast[b].todo \ {w}
                         /\ \/ /\ bcast'[b].failed = bcast[b].failed \cup {w}
                               /\ inbox' = inbox
                            \/ /\ bcast'[b].failed = bcast[b].failed
                               /\ bcast'[b].disconnected = bcast[b].disconnected
                               /\ inbox' = [inbox EXCEPT ![w] =
                                     send_text(@, json_dumps(bcast[b].data), b)]]_vars

\* a broadcast that wrote to two subscribers has returned: one write failed
\* and that subscriber is gone, the other has the frame and is attached, and
\* count() is one less than when the broadcast was called
C11_Witness ==
    \E b \in Broadcasts : \E w, v \in Subscribers :
        /\ bcast[b].pc = "returned"
        /\ bcast[b].start = {w, v}
        /\ bcast[b].failed = {w}
        /\ bcast[b].end = {v}
        /\ active_connections = {v}
        /\ Cardinality(bcast[b].end) = Cardinality(bcast[b].start) - 1
        /\ Len(FramesBy(b, v)) = 1

(***************************************************************************)
(* Claims about the accounts side by side (SpecAccounts).                  *)
(***************************************************************************)
\* the cache keys of account b, and what the cache c holds under them
KeysOfAccount(b) == {AccountKey(b), OrdersKey(b), PositionsKey(b), TradesKey(b)}
EntriesOfAccount(c, b) == [k \in KeysOfAccount(b) \cap DOMAIN c |-> c[k]]

\* a step in which a connector of account a fails: a REST failure is
\* recorded, a poll tick is skipped in backoff, the websocket counts a
\* reconnect, goes from connected to disconnected, or enters its retry sleep
ConnectorFails(a) ==
    \/ rest'[a].failed_requests > rest[a].failed_requests
    \/ /\ lastReq'.poll # lastReq.poll
       /\ lastReq'.poll.kind = "skip"
       /\ lastReq'.poll.acc = a
    \/ wsConn'[a].reconnect_count > wsConn[a].reconnect_count
    \/ wsConn[a].connected /\ ~wsConn'[a].connected
    \/ /\ wsTasks[a] # <<>>
       /\ wsTasks[a][1].pc # "sleeping"
       /\ wsTasks'[a][1].pc = "sleeping"

\* C12: a step in which a connector of account a fails (a REST failure, a
\* skip in backoff, a failed connect, a read loop that ends) leaves the cache
\* entries of every other account b, b's REST tracker, b's websocket
\* connection and its task, and the set of attached subscribers as they were.
C12_FailureIsolated ==
    [][\A a, b \in WsAccounts :
          a # b /\ ConnectorFails(a) =>
             /\ EntriesOfAccount(cache', b) = EntriesOfAccount(cache, b)
             /\ rest'[b] = rest[b]
             /\ pollPc'[b] = pollPc[b]
             /\ wsConn'[b] = wsConn[b]
             /\ wsTasks'[b] = wsTasks[b]
             /\ active_connections' = active_connections]_vars

\* account 42 is down on both sides (three REST failures and the last poll
\* tick skipped, the websocket in its retry sleep after a failure) while
\* account 43 is up on both, has its snapshot and its orders in the cache,
\* and a subscriber is attached
C12_Witness ==
    /\ ~rest[42].connected
    /\ rest[42].failed_requests = 3
    /\ lastReq.poll = [acc |-> 42, kind |-> "skip", ret |-> None]
    /\ wsTasks[42] # <<>>
    /\ wsTasks[42][1].pc = "sleeping"
    /\ wsConn[42].reconnect_count = 1
    /\ rest[43].connected
    /\ rest[43].successful_requests = 1
    /\ wsConn[43].connected
    /\ AccountKey(43) \in DOMAIN cache
    /\ OrdersKey(43) \in DOMAIN cache
    /\ active_connections = {1}

\* the websockets a step of the hub detaches: those a broadcast drops from its
\* local set `disconnected`, and the one whose endpoint leaves
Detached ==
    {w \in Subscribers :
        \/ \E b \in Broadcasts : w \in bcast[b].disconnected \ bcast'[b].disconnected
        \/ subPc[w] = "closing" /\ subPc'[w] = "done"}

\* C13: detaching a websocket that is not attached leaves the set as it is,
\* and a second detach changes nothing the first did not: so it is for
\* disconnect on every set the hub reaches, and every step that detaches
\* (the except branches of the endpoint, the loop after a broadcast) goes
\* through and leaves exactly the set without the detached websockets.
C13_DetachIdempotent ==
    /\ [](\A w \in Subscribers :
             /\ w \notin active_connections
                   => disconnect(active_connections, w) = active_connections
             /\ disconnect(disconnect(active_connections, w), w)
                   = disconnect(active_connections, w))
    /\ [][Detached # {} =>
             /\ active_connections' = active_connections \ Detached
             /\ Detached \cap active_connections = {}
                   => active_connections' = active_connections]_vars

\* a websocket was detached twice: its endpoint left after the client went
\* away, and a broadcast whose write to it failed returned after discarding it
C13_Witness ==
    \E b \in Broadcasts, w \in Subscribers :
        /\ bcast[b].pc = "returned"
        /\ w \in bcast[b].failed
        /\ subPc[w] = "done"
        /\ w \notin active_connections

(***************************************************************************)
(* Claims about the upstream connection (SpecWs).                          *)
(***************************************************************************)
\* how long the connection has heard nothing
Silence(conn, t) == t - max(conn.last_pong_time, conn.last_message_time)

\* C14: when a connected account has heard neither frame nor pong for more
\* than 60 s, the heartbeat marks it disconnected and closes the socket (an
\* open socket with a running heartbeat is never silent for longer than
\* PONG_TIMEOUT + PING_INTERVAL), and when the connector then connects again
\* reconnect_count is one more than the heartbeat found.
C14_HeartbeatReconnects ==
    /\ [](wsTasks[42] # <<>> =>
             /\ wsTasks[42][1].sock = "open" /\ wsTasks[42][1].ping = "sleeping"
                   => Silence(wsConn[42], now) <= PONG_TIMEOUT + PING_INTERVAL
             /\ wsHist[42].closed /\ wsTasks[42][1].pc = "connecting"
                   => wsConn[42].reconnect_count = wsHist[42].count + 1)
    /\ [][~wsHist[42].closed /\ wsHist'[42].closed =>
             /\ Silence(wsConn[42], now) > PONG_TIMEOUT
             /\ ~wsConn'[42].connected
             /\ wsTasks'[42][1].sock = "closed"]_vars

(***************************************************************************)
(* More claims about the broadcast hub (SpecHub).                          *)
(***************************************************************************)
\* broadcast b has a write to the websocket w under way
SendPending(b, w) == bcast[b].pc = "sending" /\ w \in bcast[b].todo

\* C15: whenever a write of a broadcast to a subscriber is pending the hub
\* lock is free, so that a websocket can be attached or detached meanwhile.
C15_LockFreeWhileSending ==
    \A b \in Broadcasts, w \in Subscribers : SendPending(b, w) => lock = 0

\* C16: the first frame a subscriber receives is the initial_data frame its
\* endpoint wrote; no lighter_update frame of a broadcast comes before it.
C16_InitialDataFirst ==
    \A w \in Subscribers :
        inbox[w] # <<>> =>
            /\ inbox[w][1].by = 0
            /\ inbox[w][1].frame.json.type = "initial_data"

(***************************************************************************)
(* Claims about the read loop and the hub together (SpecFeed).             *)
(***************************************************************************)
\* on_ws_message of account a has a frame whose cache write is still to come
\* and cannot go on before a write to a subscriber returns: its broadcast is
\* in that write, or waits for the lock of the broadcast that is
WaitsForSubscriber(a) ==
    /\ wsTasks[a] # <<>>
    /\ wsTasks[a][1].pc = "callback"
    /\ bcast[wsTasks[a][1].b].pc # "returned"
    /\ \E c \in Broadcasts, w \in Subscribers :
          /\ SendPending(c, w)
          /\ c = wsTasks[a][1].b \/ lock = c

\* C17: the callback never waits for a subscriber: in no state does the cache
\* write of the frame in hand, and with it the reading of the next frames of
\* the account, depend on a write to a subscriber returning.
C17_MergeNeverWaits ==
    \A a \in WsAccounts : ~WaitsForSubscriber(a)

(***************************************************************************)
(* Claims about the connect tasks (SpecWsTasks).                           *)
(***************************************************************************)
\* the connect tasks of account a that are not over
LiveTasks(a) == {i \in 1..Len(wsTasks[a]) : wsTasks[a][i].pc # "done"}

\* C18: an account never has more than one connect task that is not over,
\* and when a force_reconnect returns the task it made is the only one, with
\* retry_phase 1 and phase_attempts 0.
C18_OneTaskPerAccount ==
    /\ [](Cardinality(LiveTasks(42)) <= 1)
    /\ [][\A c \in WsCallers :
             /\ wsOps[c].pc # "returned"
             /\ wsOps'[c].pc = "returned"
             /\ wsOps'[c].kind = "force_reconnect"
             => /\ LiveTasks(42)' = {Len(wsTasks'[42])}
                /\ wsConn'[42].task = Len(wsTasks'[42])
                /\ wsTasks'[42][Len(wsTasks'[42])].pc = "created"
                /\ wsConn'[42].retry_phase = 1
                /\ wsConn'[42].phase_attempts = 0]_vars


(***************************************************************************)
(* Claims about the cache as its readers see it (SpecTrades).              *)
(***************************************************************************)
\* what a reader's cache.get of ws_trades:<id> returns in cache c at time t
ReadTrades(c, id, t) == get(c, TradesKey(id), t).ret

\* C19: a reader never observes a partially updated ws_trades entry: whenever
\* the trades a get returns differ from the trades it returned before the
\* step, the volumes and the timestamp it returns are those of the frame that
\* was merged in the step (trades, volumes and timestamp are from one write).
C19_NoPartialEntry ==
    [][\A id \in AccountIds :
          LET before == ReadTrades(cache, id, now)
              after == ReadTrades(cache', id, now')
          IN  (/\ before # None
               /\ after # None
               /\ after.val.trades # before.val.trades)
              => /\ wsFrame'.index \in 1..Len(Frames)
                 /\ after.val.volumes = Frames[wsFrame'.index].volumes
                 /\ after.val.timestamp = now']_vars

(***************************************************************************)
(* Claims about the durable sink (SpecRest).                               *)
(***************************************************************************)
\* C20: the durable sink never affects the REST path: a poll whose upstream
\* call succeeded (record_success ran: successful_requests went up) writes
\* account:<id> and leaves the connector exactly as record_success leaves it,
\* with no failure counted and no error handed to the error collector,
\* whether the sink is initialized or not.
C20_SinkNeverAffectsRest ==
    [][\A a \in RestAccounts :
          rest'[a].successful_requests = rest[a].successful_requests + 1
          => /\ AccountKey(a) \in DOMAIN cache'
             /\ cache'[AccountKey(a)].data = AccountData(a, cached_orders[a], now)
             /\ rest'[a] = record_success(rest[a], now)
             /\ restErrors' = restErrors]_vars

(***************************************************************************)
(* Claims about the order in which frames reach the cache (SpecArrival).   *)
(* A frame read by the loop is handed to manager.broadcast under the next  *)
(* free broadcast number, so the numbers give the order of arrival.        *)
(***************************************************************************)
\* the frames read so far, and the frame handed to broadcast b
FramesRead == {b \in Broadcasts : bcast[b].pc # "idle"}
FrameOf(b) == bcast[b].data.data

\* the frames whose callback is still waiting for manager.broadcast
FramesPending ==
    {wsTasks[42][i].b : i \in {j \in 1..Len(wsTasks[42]) : wsTasks[42][j].pc = "callback"}}

\* the frames of a channel whose callback went through
FramesApplied(channel) ==
    {b \in FramesRead \ FramesPending : FrameOf(b).channel = channel}

\* the last of a non-empty set of frames
LatestFrame(S) == FrameOf(CHOOSE b \in S : \A c \in S : c <= b)

\* C21: frames reach the cache in the order of their arrival: a step that
\* writes the cache writes the frame that was read last, every frame read
\* before it having been applied already, and ws_orders:<id> and
\* ws_positions:<id> hold at all times the content of the latest frame of
\* their channel applied so far.
C21_ArrivalOrder ==
    /\ [](/\ IF FramesApplied("account_all_orders") = {}
             THEN OrdersKey(42) \notin DOMAIN cache
             ELSE /\ OrdersKey(42) \in DOMAIN cache
                  /\ cache[OrdersKey(42)].data.orders
                        = LatestFrame(FramesApplied("account_all_orders")).items
          /\ IF FramesApplied("account_all_positions") = {}
             THEN PositionsKey(42) \notin DOMAIN cache
             ELSE /\ PositionsKey(42) \in DOMAIN cache
                  /\ cache[PositionsKey(42)].data.positions
                        = LatestFrame(FramesApplied("account_all_positions")).items)
    /\ [][cache' # cache
          => /\ FramesPending' = {}
             /\ cache' = on_ws_message_cache(cache, LatestFrame(FramesRead)', now)]_vars

\* two orders frames with different contents were read and applied, the
\* second one after its broadcast wrote to an attached websocket
C21_Witness ==
    /\ FramesApplied("account_all_orders") = {1, 2}
    /\ FrameOf(1).items # FrameOf(2).items
    /\ \E w \in Subscribers : \E k \in 1..Len(inbox[w]) : inbox[w][k].by = 2

(***************************************************************************)
(* Claims about frames that cannot be handled (SpecBadFrames).             *)
(***************************************************************************)
\* C22: a text frame that is not a JSON object is not dispatched (no
\* broadcast, no cache write), and neither such a frame nor an exception of
\* the merge callback ends the read loop or closes the connection: the task
\* stays in the read loop on its open socket and the connector stays as
\* connected as it was, with no reconnect counted.
C22_BadFrameKeepsReading ==
    [][/\ wsHist'[42].malformed # wsHist[42].malformed
          => /\ wsTasks' = wsTasks
             /\ bcast' = bcast
             /\ cache' = cache
             /\ wsConn'[42] = ws_text_received(wsConn[42], now)
       /\ wsHist'[42].raised # wsHist[42].raised
          => /\ \A i \in 1..Len(wsTasks[42]) :
                   /\ wsTasks'[42][i].sock = wsTasks[42][i].sock
                   /\ wsTasks[42][i].pc \in {"reading", "callback"}
                      => wsTasks'[42][i].pc = "reading"
             /\ wsConn'[42].connected = wsConn[42].connected
             /\ wsConn'[42].running = wsConn[42].running
             /\ wsConn'[42].reconnect_count = wsConn[42].reconnect_count]_vars

\* after a frame that was dropped and a frame whose merge raised behind a
\* broadcast to the attached websocket, the next frame was read, dispatched
\* and cached, and the loop goes on reading
C22_Witness ==
    /\ wsHist[42].malformed > 0
    /\ wsHist[42].raised > 0
    /\ bcast[1].pc = "returned" /\ bcast[1].data.data.channel = "account_all_trades"
    /\ bcast[1].start # {}
    /\ bcast[2].pc = "returned" /\ bcast[2].data.data.channel = "account_all_orders"
    /\ OrdersKey(42) \in DOMAIN cache
    /\ wsTasks[42][1].pc = "reading" /\ wsTasks[42][1].sock = "open"
    /\ wsConn[42].connected

(***************************************************************************)
(* Claims about a connector that was stopped (SpecWsTasks).                *)
(***************************************************************************)
\* the stop() that LighterWebSocketClient.stop called returns in this step
StopReturns(c) ==
    /\ wsOps[c].pc # "returned"
    /\ wsOps'[c].pc = "returned"
    /\ wsOps'[c].kind = "stop"

\* that stop() has returned
StopReturned == \E c \in WsCallers : wsOps[c].kind = "stop" /\ wsOps[c].pc = "returned"

\* the connector of account a is at rest: both flags down, no ping task that
\* still runs, no socket and no session open, every connect task over
ConnectorStopped(a) ==
    /\ ~wsConn[a].running
    /\ ~wsConn[a].connected
    /\ \A i \in 1..Len(wsTasks[a]) :
          /\ wsTasks[a][i].ping \in {"none", "done"}
          /\ wsTasks[a][i].sock # "open"
          /\ wsTasks[a][i].sess # "open"
          /\ wsTasks[a][i].pc = "done"

\* a connect task of account a dials in this step
Dials(a) ==
    \E i \in 1..Len(wsTasks'[a]) :
        /\ wsTasks'[a][i].pc = "connecting"
        /\ i \in 1..Len(wsTasks[a]) => wsTasks[a][i].pc # "connecting"

\* C23: when stop() on a connector returns, running and connected are false,
\* the ping task is cancelled, the socket and the session are closed and the
\* connect task is over; and no dial follows.
C23_StoppedAfterStop ==
    [][/\ (\E c \in WsCallers : StopReturns(c)) => ConnectorStopped(42)'
       /\ StopReturned => ~Dials(42)]_vars

(***************************************************************************)
(* Claims about the shutdown of the application (SpecShutdown).            *)
(***************************************************************************)
\* lighter_client.close(), the last call of the shutdown handler, returns in
\* this step
ShutdownReturns == lighter.close # "returned" /\ lighter'.close = "returned"

\* the polling task was cancelled or is over
PollerStopped == lighter.cancelled \/ lighter.poller = "done"

\* no session of fetch_active_orders and no SDK client of an account is open
SessionsClosed ==
    /\ lighter.http_sessions = {}
    /\ \A a \in DOMAIN lighter.api_clients : lighter.api_clients[a] = "closed"

\* an upstream REST call is issued in this step
IssuesCall == \E a \in RestAccounts : calls'[a] # calls[a]

\* C24: when the shutdown handler returns, the polling task has been
\* cancelled or is over and every per-account session is closed; and no
\* upstream REST call is issued after that.
C24_ShutdownStopsRest ==
    [][/\ ShutdownReturns => PollerStopped' /\ SessionsClosed'
       /\ lighter.close = "returned" => ~IssuesCall]_vars

(***************************************************************************)
(* Claims about what the trade merge stores (SpecTrades).                  *)
(***************************************************************************)
\* the last call of on_ws_message had a frame of a channel with an integer
\* suffix whose trade lists, and the cached buckets of their markets, hold
\* objects only
WellFormedTrades ==
    /\ wsFrame # None
    /\ MergedFrame.suffix.ok
    /\ \A m \in MergedMarkets :
          /\ FirstNonObject(MergedFrame.trades.items[m].items) = 0
          /\ m \in DOMAIN MergedBefore => FirstNonObject(MergedBefore[m]) = 0

\* C25: after an account_all_trades frame, for each market m of it the bucket
\* is the cached bucket followed, in frame order, by the incoming trades whose
\* identity was not in it, cut to its last MAX_TRADES_PER_MARKET, or the last
\* MAX_TRADES_PER_MARKET of the incoming list when m was not cached; the
\* stored volumes are those of the frame and the TTL of the entry is 3600.
C25_MergeAsStated ==
    WellFormedTrades
    => /\ MergedKey \in DOMAIN cache
       /\ cache[MergedKey].ttl = 3600
       /\ cache[MergedKey].data.volumes = MergedFrame.volumes
       /\ \A m \in MergedMarkets :
             LET incoming == MergedFrame.trades.items[m].items
             IN  /\ m \in DOMAIN cache[MergedKey].data.trades
                 /\ cache[MergedKey].data.trades[m]
                       = IF m \in DOMAIN MergedBefore
                         THEN LastN(MergedBefore[m] \o FreshTrades(MergedBefore[m], incoming),
                                    MAX_TRADES_PER_MARKET)
                         ELSE LastN(incoming, MAX_TRADES_PER_MARKET)

\* C26: the merge callback completes for every account_all_trades frame whose
\* channel suffix is an integer, for an account that is configured or not,
\* with the durable sink enabled or not: ws_trades:<id> is rewritten, with a
\* TTL of 3600, at the time of the frame.
C26_MergeCompletes ==
    (wsFrame # None /\ MergedFrame.suffix.ok)
    => /\ wsOutcome = "merged"
       /\ MergedKey \in DOMAIN cache
       /\ cache[MergedKey].ttl = 3600
       /\ cache[MergedKey].timestamp = wsFrame.at

(***************************************************************************)
(* Claims about the retry machine of a REST connector (SpecRest).          *)
(***************************************************************************)
\* a request of account a ends with a success in this step
RestSuccess(a) == rest'[a].successful_requests = rest[a].successful_requests + 1

\* a request of account a ends with a failure, and no success, in this step
RestFailure(a) ==
    /\ rest'[a].failed_requests = rest[a].failed_requests + 1
    /\ rest'[a].successful_requests = rest[a].successful_requests

\* C27: a success of a REST request, from any state, returns the connector to
\* OK with all counters reset: connected, no consecutive failure, retry phase
\* 1, no phase attempt.
C27_SuccessResets ==
    [][\A a \in RestAccounts :
          RestSuccess(a)
          => /\ rest'[a].connected
             /\ rest'[a].consecutive_failures = 0
             /\ rest'[a].retry_phase = 1
             /\ rest'[a].phase_attempts = 0]_vars

\* C28: retry_phase is always 1 or 2, and a failure of a connector in phase 2
\* leaves it in phase 2, with the interval of 300 s, and adds one to the
\* attempt counter; only a success or force_reset changes the phase.
C28_Phase2IsLast ==
    /\ [](\A a \in RestAccounts : rest[a].retry_phase \in {1, 2})
    /\ [][\A a \in RestAccounts :
            /\ (rest[a].retry_phase = 2 /\ RestFailure(a))
               => /\ rest'[a].retry_phase = 2
                  /\ get_retry_interval(rest'[a]) = 300
                  /\ rest'[a].phase_attempts = rest[a].phase_attempts + 1
            /\ (rest[a].retry_phase = 2 /\ rest'[a].retry_phase # 2)
               => RestSuccess(a) \/ resetHist'[a].just]_vars

\* a connector in phase 2 failed again, a second time past the number of
\* attempts that ends phase 1, and is still in phase 2
C28_Witness ==
    \E a \in RestAccounts :
        /\ rest[a].retry_phase = 2
        /\ rest[a].phase_attempts >= 1
        /\ ~rest[a].connected

(***************************************************************************)
(* Claims about the reconnects of a connector (SpecWs, SpecRetry).         *)
(***************************************************************************)
\* a connect task of account a leaves its read loop in this step
ReadLoopExits(a) ==
    \E i \in 1..Len(wsTasks[a]) :
        /\ wsTasks[a][i].pc = "reading"
        /\ wsTasks'[a][i].pc \notin {"reading", "callback"}

\* C29: every exit from the read loop, whatever its cause, adds exactly one to
\* reconnect_count and advances the retry machine by one attempt before the
\* next dial.
C29_ExitCountsAndAdvances ==
    [][ReadLoopExits(42)
       => /\ wsConn'[42].reconnect_count = wsConn[42].reconnect_count + 1
          /\ wsConn'[42].retry_phase = ws_advance_retry_phase(wsConn[42]).retry_phase
          /\ wsConn'[42].phase_attempts
                = ws_advance_retry_phase(wsConn[42]).phase_attempts]_vars

\* the connect task of account 42 goes to its retry sleep in this step
StartsWait ==
    /\ wsTasks[42] # <<>>
    /\ wsTasks[42][1].pc # "sleeping" /\ wsTasks'[42][1].pc = "sleeping"

\* it dials again after a retry sleep
Redials ==
    /\ wsTasks[42] # <<>>
    /\ wsTasks[42][1].pc = "sleeping" /\ wsTasks'[42][1].pc = "connecting"

\* its connection reaches SUBSCRIBED: ws_connect returned and the
\* subscriptions were sent
ReachesSubscribed ==
    /\ wsTasks[42] # <<>>
    /\ wsTasks[42][1].pc = "connecting" /\ wsTasks'[42][1].pc = "reading"

\* the retry state goes back to phase 1 with fewer attempts than before
RetryReset ==
    /\ wsConn'[42].retry_phase = 1
    /\ \/ wsConn[42].retry_phase = 2
       \/ wsConn'[42].phase_attempts < wsConn[42].phase_attempts

\* C30: the connector waits 60 s before a redial in phase 1 and 300 s in
\* phase 2; it is in phase 2 exactly when 5 or more connection cycles in a
\* row failed since it last reached SUBSCRIBED; and its retry state is reset
\* only when a connection reaches SUBSCRIBED.
C30_RetryMachine ==
    /\ [](wsTasks[42] # <<>>
            => (wsConn[42].retry_phase = 2
                  <=> wsHist[42].fails >= WS_RETRY_PHASE_1_MAX_ATTEMPTS))
    /\ [][/\ StartsWait
              => wsTasks'[42][1].wake
                    = now + (IF wsConn'[42].retry_phase = 1 THEN 60 ELSE 300)
          /\ Redials => now >= wsTasks[42][1].wake
          /\ RetryReset => ReachesSubscribed]_vars

(***************************************************************************)
(* Claims about the initial frame of a subscriber (SpecHub).               *)
(***************************************************************************)
\* the write of the initial_data frame to websocket w failed: the endpoint is
\* past send_to_client and no frame written by it is in the inbox
InitialDataFailed(w) ==
    /\ subPc[w] \in {"listening", "closing", "done"}
    /\ \A k \in 1..Len(inbox[w]) : inbox[w][k].by # 0

\* C31: a failed write of send_to_client detaches the websocket: its time in
\* the set ends at that failure, so no broadcast writes a frame to it after.
C31_FailedSendDetaches ==
    [][\A w \in Subscribers :
          InitialDataFailed(w)
          => /\ inbox'[w] = inbox[w]
             /\ \A b \in Broadcasts :
                   (bcast[b].pc # "sending" /\ bcast'[b].pc = "sending")
                   => w \notin bcast'[b].todo]_vars

(***************************************************************************)
(* SpecRouting: on_ws_message fed frames of every channel, of two          *)
(* accounts, with nobody attached downstream, over some minutes.           *)
(***************************************************************************)
RoutingTicks == 3
MaxRouted == 3

\* a frame of no channel on_ws_message knows, with an account_index field
UpdateFrame(account_index, p) ==
    [channel |-> "", account_index |-> account_index, p |-> p]

RoutedFrames ==
    << ListFrame("account_all_orders", 42, <<"o1">>),
       ListFrame("account_all_orders", 42, <<>>),
       ListFrame("account_all_orders", 43, <<"o2", "o3">>),
       ListFrame("account_all_positions", 42, <<"p1">>),
       ListFrame("account_all_positions", 43, <<>>),
       UpdateFrame(42, "u1"),
       UpdateFrame(43, "u2"),
       [channel |-> "", p |-> "u3"],
       [channel |-> "account_all_orders", suffix |-> [ok |-> FALSE, id |-> 0],
        items |-> <<"o1">>, account_index |-> 42],
       TradesFrame(TRUE, 9, OneMarket(1, <<tA>>), NoVolumes),
       TradesFrame(TRUE, 42, OneMarket(1, <<tA>>), NoVolumes) >>

\* one call of on_ws_message(RoutedFrames[f]): manager.broadcast returns at
\* once, the cache write follows
OnWsRouted(f) ==
    /\ wsCalls < MaxRouted
    /\ wsCalls' = wsCalls + 1
    /\ wsFrame' = [none |-> FALSE, index |-> f, at |-> now, before |-> cache]
    /\ cache' = on_ws_message_cache(cache, RoutedFrames[f], now)
    /\ UNCHANGED <<now, cacheRet, lastSet, wsOutcome, restVars, supabase_initialized, collector,
                   lighter, hubVars, connVars>>

TickRouting ==
    /\ now < StartTime + 100 * RoutingTicks
    /\ now' = now + 100
    /\ UNCHANGED <<cacheVars, wsVars, restVars, supabase_initialized, collector, lighter, hubVars>>

NextRouting ==
    \/ \E f \in 1..Len(RoutedFrames) : OnWsRouted(f)
    \/ TickRouting

SpecRouting == InitWs /\ [][NextRouting]_vars

(* Claims about the cache routing of a frame (SpecRouting). *)
RoutedFrame == RoutedFrames[wsFrame.index]

\* the keys whose entry is not what it was before the frame
RoutedKeys ==
    {k \in (DOMAIN cache) \cup (DOMAIN wsFrame.before) :
        \/ k \notin DOMAIN cache
        \/ k \notin DOMAIN wsFrame.before
        \/ cache[k] # wsFrame.before[k]}

\* the cache holds data under key, written at the time of the frame with ttl
Stored(key, data, ttl) ==
    /\ key \in DOMAIN cache
    /\ cache[key] = CacheEntry(data, wsFrame.at, ttl)

IsOrdersFrame(f) == f.channel = "account_all_orders" /\ f.suffix.ok
IsPositionsFrame(f) == f.channel = "account_all_positions" /\ f.suffix.ok
IsUpdateFrame(f) == f.channel = "" /\ "account_index" \in DOMAIN f

\* C32: a frame writes at most one cache key, the one of its channel:
\* ws_orders:<id> and ws_positions:<id> take the list of the frame with ttl
\* 120, ws_update:<id> takes a frame of no channel with the default ttl, and
\* no other key changes.
C32_OneKeyPerFrame ==
    ~wsFrame.none =>
        /\ Cardinality(RoutedKeys) <= 1
        /\ IsOrdersFrame(RoutedFrame) =>
              /\ RoutedKeys \subseteq {OrdersKey(RoutedFrame.suffix.id)}
              /\ Stored(OrdersKey(RoutedFrame.suffix.id),
                        [orders |-> RoutedFrame.items, timestamp |-> wsFrame.at], 120)
        /\ IsPositionsFrame(RoutedFrame) =>
              /\ RoutedKeys \subseteq {PositionsKey(RoutedFrame.suffix.id)}
              /\ Stored(PositionsKey(RoutedFrame.suffix.id),
                        [positions |-> RoutedFrame.items, timestamp |-> wsFrame.at], 120)
        /\ IsUpdateFrame(RoutedFrame) =>
              /\ RoutedKeys \subseteq {UpdateKey(RoutedFrame.account_index)}
              /\ Stored(UpdateKey(RoutedFrame.account_index), RoutedFrame, default_ttl)

\* an orders frame replaced a longer list stored for its account while the
\* entries of other keys stayed
C32_Witness ==
    /\ ~wsFrame.none
    /\ IsOrdersFrame(RoutedFrame)
    /\ RoutedKeys = {OrdersKey(RoutedFrame.suffix.id)}
    /\ OrdersKey(RoutedFrame.suffix.id) \in DOMAIN wsFrame.before
    /\ RoutedFrame.items = <<>>
    /\ Cardinality(DOMAIN cache) >= 2

(* Claims about the forwarding of a frame (SpecBadFrames). *)
\* this step read a text frame of account 42 and handed it to the callbacks
Dispatched ==
    /\ wsConn'[42].total_messages = wsConn[42].total_messages + 1
    /\ wsHist'[42].malformed = wsHist[42].malformed

\* this step calls manager.broadcast as broadcast b
Forwards(b) == bcast[b].pc = "idle" /\ bcast'[b].pc # "idle"

poll_interval == 1
PollersTicks == 4
PollersMaxRequests == 3

\* settings.accounts, in the order of the configuration
SettingsAccounts == <<42, 43>>

\* the cache after fetch_account_data of accounts[i..] ran up to its first
\* suspension: a skip reads the cache
RECURSIVE fetch_all_accounts_cache(_, _, _, _, _)
fetch_all_accounts_cache(conns, c, accounts, i, t) ==
    IF i > Len(accounts) THEN c
    ELSE fetch_all_accounts_cache(
             conns, fetch_account_data_begin(conns[accounts[i]], c, accounts[i], t).cache,
             accounts, i + 1, t)

\* the polling task runs for the first time or its sleep is over: `while
\* self.running`, and fetch_all_accounts gathers one fetch_account_data per
\* account, each of which runs up to its first suspension
PollersRun(maxRequests) ==
    LET kind == [a \in WsAccounts |->
                    fetch_account_data_begin(rest[a], cache, a, now).kind]
        last == SettingsAccounts[Len(SettingsAccounts)]
    IN  /\ lighter.poller \in {"created", "sleeping"}
        /\ lighter.poller = "sleeping" => lighter.wake <= now
        /\ \A a \in WsAccounts : pollPc[a] = "idle"
        /\ \A a \in WsAccounts : kind[a] = "call" => calls[a] < maxRequests
        /\ lighter' = [lighter EXCEPT !.running = TRUE, !.poller = "fetching"]
        /\ pollPc' = [a \in WsAccounts |-> IF kind[a] = "call" THEN "awaiting" ELSE "idle"]
        /\ calls' = [a \in WsAccounts |-> IF kind[a] = "call" THEN calls[a] + 1 ELSE calls[a]]
        /\ cache' = fetch_all_accounts_cache(rest, cache, SettingsAccounts, 1, now)
        /\ lastReq' = [lastReq EXCEPT !.poll =
                          [acc |-> last, kind |-> kind[last],
                           ret |-> fetch_account_data_begin(rest[last], cache, last, now).ret]]
        /\ resetHist' = [a \in WsAccounts |-> [resetHist[a] EXCEPT !.fresh = FALSE]]
        /\ UNCHANGED <<now, cacheRet, lastSet, wsVars, supabase_initialized, collector, hubVars,
                       rest, orderTasks, cached_orders, restErrors, hist>>

\* the gather of fetch_all_accounts returned, every fetch_account_data being
\* over: `await asyncio.sleep(settings.poll_interval)`
PollersSleep ==
    /\ lighter.poller = "fetching"
    /\ \A a \in WsAccounts : pollPc[a] = "idle"
    /\ lighter' = [lighter EXCEPT !.poller = "sleeping", !.wake = now + poll_interval]
    /\ UNCHANGED <<now, cacheVars, wsVars, supabase_initialized, collector, restVars, hubVars>>

\* a second passes, when the polling task waits for an answer or for its timer
TickPollers ==
    /\ now < StartTime + PollersTicks
    /\ \/ lighter.poller = "sleeping" /\ now < lighter.wake
       \/ lighter.poller = "fetching" /\ \E a \in WsAccounts : pollPc[a] = "awaiting"
    /\ now' = now + 1
    /\ UNCHANGED <<cacheVars, wsVars, restVars, supabase_initialized, collector, lighter, hubVars>>

NextPollers ==
    \/ StartPolling
    \/ PollersRun(PollersMaxRequests)
    \/ \E a \in WsAccounts : PollSucceeds(a, PollersMaxRequests)
    \/ \E a \in WsAccounts : PollFails(a)
    \/ PollersSleep
    \/ TickPollers

SpecPollers == InitAccounts /\ [][NextPollers]_vars

(* Claims about the pollers of the accounts (SpecPollers). *)
\* when the last request of account a ended
LastEnded(a) == max(rest[a].last_successful_request, rest[a].last_failed_request)

\* C34: the poller of an account does not wait for the request of another
\* account: while a request of account a is outstanding, an account b that is
\* not in backoff and whose own request ended is polled again within
\* poll_interval of that end.
C34_PollersIndependent ==
    \A a \in WsAccounts, b \in WsAccounts :
        ( /\ a # b
          /\ pollPc[a] = "awaiting"
          /\ pollPc[b] = "idle"
          /\ rest[b].connected
          /\ LastEnded(b) # 0 )
        => now <= LastEnded(b) + poll_interval

(* Claims about the order fetches of an account in backoff (SpecRestOrders). *)
\* the gather of fetch_all_active_orders for account a returns in this step
\* and every fetch_active_orders of it returned the stored list, as the skip does
SkippedGatherReturns(a) ==
    /\ orderTasks[a] # <<>>
    /\ orderTasks'[a] = <<>>
    /\ InBackoff(rest[a], now)
    /\ \A i \in 1..Len(orderTasks[a]) : orderTasks[a][i].result = cached_orders[a]

\* C35: a fetch_all_active_orders over a non-empty list of markets that runs
\* while the account is in backoff leaves the stored active orders of the
\* account as they were: the list neither grows nor repeats itself.
C35_SkipKeepsOrders ==
    [][\A a \in RestAccounts :
          SkippedGatherReturns(a) => cached_orders'[a] = cached_orders[a]]_vars

(* Claims about the request counters of an account (SpecRest). *)
\* the upstream request of the poll of account a ends in this step
RequestEnds(a) == pollPc[a] = "awaiting" /\ pollPc'[a] = "idle"

\* this step records one success for account a and nothing else
OneSuccess(a) ==
    /\ rest'[a].successful_requests = rest[a].successful_requests + 1
    /\ rest'[a].failed_requests = rest[a].failed_requests
    /\ restErrors' = restErrors

\* this step records one failure for account a and nothing else: one more
\* consecutive failure and one ErrorEntry of source rest
OneFailure(a) ==
    /\ rest'[a].failed_requests = rest[a].failed_requests + 1
    /\ rest'[a].successful_requests = rest[a].successful_requests
    /\ rest'[a].consecutive_failures = rest[a].consecutive_failures + 1
    /\ restErrors' = restErrors + 1

\* C36: every upstream request that was issued is recorded as one outcome,
\* one success or one failure (which adds 1 to consecutive_failures and one
\* ErrorEntry): total_requests = successful_requests + failed_requests
\* throughout, total_requests grows by 1 when a request ends and not otherwise.
C36_OneOutcomePerRequest ==
    [][\A a \in RestAccounts :
          /\ rest'[a].total_requests
                = rest'[a].successful_requests + rest'[a].failed_requests
          /\ RequestEnds(a)
             => /\ rest'[a].total_requests = rest[a].total_requests + 1
                /\ OneSuccess(a) \/ OneFailure(a)
          /\ ~RequestEnds(a)
             => /\ rest'[a].total_requests = rest[a].total_requests
                /\ restErrors' = restErrors]_vars

(* Claims about the connected flag of a connector between connections (SpecWs). *)
\* connect task i of account a lost its socket and waits to retry or dials
BetweenConnections(a, i) ==
    /\ wsTasks[a][i].sock = "closed"
    /\ wsTasks[a][i].pc \in {"sleeping", "connecting"}

\* C37: while the socket of a connector is closed and the connector waits to
\* retry or dials, whatever ended the read loop, its connected flag (what
\* is_connected and get_health_status report) is false.
C37_DownBetweenConnections ==
    \A i \in 1..Len(wsTasks[42]) : BetweenConnections(42, i) => ~wsConn[42].connected

(* Claims about a read loop whose heartbeat is over (SpecWs). *)
\* connect task i of account a is in its read loop and its ping task ended
HeartbeatOver(a, i) ==
    /\ wsConn[a].running
    /\ wsTasks[a][i].pc = "reading"
    /\ wsTasks[a][i].ping = "done"

\* C38: a running connector does not stay in the read loop without a
\* heartbeat: when the ping task has ended, for whatever reason, the socket
\* is closed, so that the read loop ends and the connector dials again.
C38_HeartbeatEndClosesSocket ==
    \A i \in 1..Len(wsTasks[42]) : HeartbeatOver(42, i) => wsTasks[42][i].sock = "closed"

(* Claims about the buckets a trade merge leaves alone (SpecTrades). *)
\* the buckets of the key of the last frame, as the cache holds them now
MergedAfter ==
    IF MergedKey \in DOMAIN cache THEN cache[MergedKey].data.trades ELSE EmptyDict

\* new begins with old less its k oldest trades, and trades were dropped only
\* by a cut to MAX_TRADES_PER_MARKET
KeptButOldest(old, new) ==
    \E k \in 0..Len(old) :
        /\ Len(new) >= Len(old) - k
        /\ \A i \in 1..(Len(old) - k) : new[i] = old[k + i]
        /\ k > 0 => Len(new) = MAX_TRADES_PER_MARKET

\* C39: a call of the trade merge changes only the buckets of the markets its
\* frame names: every other bucket of ws_trades:<id> is carried over as it
\* was, no bucket appears for a market the frame does not name, and a bucket
\* of a named market loses no stored trade but the oldest ones, dropped by
\* the cut to MAX_TRADES_PER_MARKET.
C39_OtherBucketsKept ==
    wsFrame # None
    => /\ DOMAIN MergedAfter \subseteq (DOMAIN MergedBefore) \cup MergedMarkets
       /\ \A m \in DOMAIN MergedBefore :
             /\ m \in DOMAIN MergedAfter
             /\ m \notin MergedMarkets => MergedAfter[m] = MergedBefore[m]
             /\ m \in MergedMarkets => KeptButOldest(MergedBefore[m], MergedAfter[m])

\* a merge that cut the bucket of the market of its frame, dropping the
\* oldest stored trade, and carried over the bucket of another market
C39_Witness ==
    /\ wsFrame # None
    /\ wsOutcome = "merged"
    /\ \E m \in (DOMAIN MergedBefore) \ MergedMarkets :
          MergedBefore[m] # <<>> /\ MergedAfter[m] = MergedBefore[m]
    /\ \E n \in (DOMAIN MergedBefore) \cap MergedMarkets :
          /\ MergedBefore[n] # <<>>
          /\ MergedAfter[n][1] # MergedBefore[n][1]
          /\ Len(MergedAfter[n]) = MAX_TRADES_PER_MARKET

(***************************************************************************)
(* SpecErrors: the error collector driven by arbitrary callers over a few  *)
(* seconds.                                                                *)
(***************************************************************************)
MaxAdds == 4
ErrorsTicks == 1

ErrorSources == {"rest", "websocket"}
ErrorKinds == {<<"429", "rest">>, <<"timeout", "websocket">>}
\* the limits callers pass
Limits == 0..(max_errors + 1)

AddError(error_type, source) ==
    /\ Len(collector.log) < MaxAdds
    /\ collector' = add_error(collector, error_type, source, now)
    /\ UNCHANGED <<now, cacheVars, wsVars, restVars, supabase_initialized, lighter, hubVars>>

ClearErrors ==
    /\ collector.cleared < Len(collector.log)
    /\ collector' = collector_clear(collector)
    /\ UNCHANGED <<now, cacheVars, wsVars, restVars, supabase_initialized, lighter, hubVars>>

RecentErrors(limit, source) ==
    /\ collector.ret = None
    /\ collector' = [collector EXCEPT !.ret =
           Some([limit |-> limit, source |-> source, from |-> collector.errors,
                 result |-> get_recent_errors(collector, limit, source)])]
    /\ UNCHANGED <<now, cacheVars, wsVars, restVars, supabase_initialized, lighter, hubVars>>

TickErrors ==
    /\ now < StartTime + ErrorsTicks
    /\ now' = now + 1
    /\ UNCHANGED <<cacheVars, wsVars, restVars, supabase_initialized, collector, lighter,
                   hubVars>>

NextErrors ==
    \/ \E k \in ErrorKinds : AddError(k[1], k[2])
    \/ ClearErrors
    \/ \E limit \in Limits, source \in ErrorSources \cup {""} : RecentErrors(limit, source)
    \/ TickErrors

SpecErrors == InitWs /\ [][NextErrors]_vars

(* Claims about the error ring (SpecErrors). *)
\* the entries added since the last clear, in the order of the adds
SinceClear == SubSeq(collector.log, collector.cleared + 1, Len(collector.log))

RECURSIVE SumCounts(_)
SumCounts(counts) ==
    IF DOMAIN counts = {} THEN 0
    ELSE LET k == CHOOSE k \in DOMAIN counts : TRUE
         IN  counts[k] + SumCounts(DictDel(counts, {k}))

\* how often e occurs in lst
Occurs(lst, e) == Cardinality({i \in 1..Len(lst) : lst[i] = e})

\* result holds the n newest entries of the entries of ring that have the
\* source asked for, the newest first
NewestFirst(result, ring, n, source) ==
    LET wanted == IF source # "" THEN SelectSeq(ring, LAMBDA e : e.source = source)
                  ELSE ring
    IN  /\ Len(result) = IF Len(wanted) <= n THEN Len(wanted) ELSE n
        /\ \A i \in 1..(Len(result) - 1) :
              result[i].timestamp >= result[i + 1].timestamp
        /\ \A i \in 1..Len(result) : Occurs(result, result[i]) <= Occurs(wanted, result[i])
        /\ \A j \in 1..Len(wanted) :
              Occurs(result, wanted[j]) < Occurs(wanted, wanted[j])
              => \A i \in 1..Len(result) : result[i].timestamp >= wanted[j].timestamp

\* C40: after any adds and clears the ring holds at most max_errors entries,
\* the most recent adds since the last clear in the order they were added;
\* the counters per source and kind sum to the number of adds since the last
\* clear; and get_recent_errors(limit) returns at most limit entries, the
\* newest first.
C40_RingAndCounters ==
    /\ Len(collector.errors) <= max_errors
    /\ collector.errors = LastN(SinceClear, max_errors)
    /\ SumCounts(collector.error_counts) = Len(SinceClear)
    /\ \A k \in DOMAIN collector.error_counts :
          collector.error_counts[k]
             = Cardinality({i \in 1..Len(SinceClear) :
                              CountKey(SinceClear[i].source, SinceClear[i].error_type) = k})
    /\ collector.ret # None
       => /\ Len(collector.ret.val.result) <= collector.ret.val.limit
          /\ NewestFirst(collector.ret.val.result, collector.ret.val.from,
                         collector.ret.val.limit, collector.ret.val.source)

\* the ring is full and has dropped its oldest entry after a clear before
\* it, and a call of get_recent_errors on a full ring with entries of two
\* seconds returned the newer one only
C40_Witness ==
    /\ collector.cleared > 0
    /\ Len(SinceClear) > max_errors
    /\ collector.ret # None
    /\ Len(collector.ret.val.result) = 1
    /\ Len(collector.ret.val.from) = max_errors
    /\ collector.ret.val.result[1].timestamp > collector.ret.val.from[1].timestamp

====
